---- MODULE Spec2Model ----
(***************************************************************************)
(* Model of the ignore / inclusion resolution engine of contextcraft:      *)
(*   utils/ignore_handler.py  (load_ignore_patterns, is_path_ignored)      *)
(*   tools/tree_generator.py  (_should_show_path, the tree walk,           *)
(*                             generate_and_output_tree)                   *)
(*   tools/flattener.py       (the include criteria, the flatten walk,     *)
(*                             flatten_code_logic)                         *)
(*   utils/config_manager.py  (load_config)                                *)
(*   main.py                  (tree_command, flatten_command)              *)
(*                                                                         *)
(* A string is a sequence of one-character strings, a path is a sequence   *)
(* of names (pathlib's Path.parts), so that strip, split, endswith and the *)
(* glob matchers are computed and not assumed.                             *)
(***************************************************************************)
EXTENDS Integers, Sequences, FiniteSets, TLC

VARIABLES fs, denied, listing, llmignore, pyproject, content, objects, last

vars == <<fs, denied, listing, llmignore, pyproject, content, objects, last>>

(***************************************************************************)
(* Strings                                                                 *)
(***************************************************************************)

\* The characters the model uses, in code point order.
Chars ==
  << "\t", " ", "!", "#", "*", "-", ".", "/",
     "0", "1", "2", "3", "4", "5", "6", "7", "8", "9",
     "A", "B", "C", "D", "E", "F", "G", "H", "I", "J", "K", "L", "M",
     "N", "O", "P", "Q", "R", "S", "T", "U", "V", "W", "X", "Y", "Z", "_",
     "a", "b", "c", "d", "e", "f", "g", "h", "i", "j", "k", "l", "m",
     "n", "o", "p", "q", "r", "s", "t", "u", "v", "w", "x", "y", "z",
     "BOM" >>

\* U+FEFF, what the three bytes of a UTF-8 byte-order mark decode to under
\* encoding="utf-8"
BOM == "BOM"

OrdTable == [c \in {Chars[i] : i \in 1..Len(Chars)} |-> CHOOSE i \in 1..Len(Chars) : Chars[i] = c]

\* ord(c)
Ord(c) == OrdTable[c]

\* str.lower(), one character
Lower(c) == IF Ord(c) \in 19..44 THEN Chars[Ord(c) + 27] ELSE c

LowerStr(s) == [i \in 1..Len(s) |-> Lower(s[i])]

IsSpace(c) == c \in {" ", "\t"}

StartsWith(s, t) == Len(t) <= Len(s) /\ \A i \in 1..Len(t) : s[i] = t[i]

EndsWith(s, t) ==
  Len(t) <= Len(s) /\ \A i \in 1..Len(t) : s[Len(s) - Len(t) + i] = t[i]

Contains(s, c) == \E i \in 1..Len(s) : s[i] = c

\* index of the first c in s (s contains c)
IndexOf(s, c) == CHOOSE i \in 1..Len(s) : s[i] = c /\ \A j \in 1..(i - 1) : s[j] # c

\* str.strip(): drop leading and trailing whitespace
Strip(s) ==
  LET keep == {i \in 1..Len(s) : ~IsSpace(s[i])}
  IN  IF keep = {} THEN <<>>
      ELSE LET lo == CHOOSE i \in keep : \A j \in keep : i <= j
               hi == CHOOSE i \in keep : \A j \in keep : j <= i
           IN  SubSeq(s, lo, hi)

\* str.split(sep): the pieces between the separators (empty pieces kept)
RECURSIVE SplitFrom(_, _, _)
SplitFrom(s, sep, from) ==
  LET hits == {i \in from..Len(s) : s[i] = sep}
  IN  IF hits = {} THEN << SubSeq(s, from, Len(s)) >>
      ELSE LET i == CHOOSE h \in hits : \A g \in hits : h <= g
           IN  << SubSeq(s, from, i - 1) >> \o SplitFrom(s, sep, i + 1)

Split(s, sep) == SplitFrom(s, sep, 1)

\* sep.join(parts)
RECURSIVE Join(_, _)
Join(parts, sep) ==
  IF parts = <<>> THEN <<>>
  ELSE IF Len(parts) = 1 THEN parts[1]
  ELSE parts[1] \o <<sep>> \o Join(Tail(parts), sep)

\* fnmatch of one path component against a pattern whose only wildcard is *
RECURSIVE Glob(_, _, _, _)
Glob(pat, i, s, j) ==
  IF i > Len(pat) THEN j > Len(s)
  ELSE IF pat[i] = "*"
       THEN \E k \in j..(Len(s) + 1) : Glob(pat, i + 1, s, k)
       ELSE j <= Len(s) /\ s[j] = pat[i] /\ Glob(pat, i + 1, s, j + 1)

FnMatch(name, pat) == Glob(pat, 1, name, 1)

\* s < t in Python's string order
RECURSIVE StrLess(_, _)
StrLess(s, t) ==
  IF t = <<>> THEN FALSE
  ELSE IF s = <<>> THEN TRUE
  ELSE IF s[1] = t[1] THEN StrLess(Tail(s), Tail(t))
  ELSE Ord(s[1]) < Ord(t[1])

(***************************************************************************)
(* Names, paths, the file system                                           *)
(***************************************************************************)

SLASH        == <<"/">>
PROJ         == <<"p", "r", "o", "j">>
ELSEWHERE    == <<"t", "m", "p">>
GIT          == <<".", "g", "i", "t">>
CONFIG       == <<"c", "o", "n", "f", "i", "g">>
BUILD        == <<"b", "u", "i", "l", "d">>
BUILDX       == <<"b", "u", "i", "l", "d", "x">>
KEEP_TXT     == <<"k", "e", "e", "p", ".", "t", "x", "t">>
OTHER_TXT    == <<"o", "t", "h", "e", "r", ".", "t", "x", "t">>
IMPORTANT_LOG == <<"i", "m", "p", "o", "r", "t", "a", "n", "t", ".", "l", "o", "g">>
APP_LOG      == <<"a", "p", "p", ".", "l", "o", "g">>
NODE_MODULES == <<"n", "o", "d", "e", "_", "m", "o", "d", "u", "l", "e", "s">>
PKG          == <<"p", "k", "g">>
INDEX_JS     == <<"i", "n", "d", "e", "x", ".", "j", "s">>
SRC          == <<"s", "r", "c">>
MAIN_PY      == <<"m", "a", "i", "n", ".", "p", "y">>
TREE_TXT     == <<"t", "r", "e", "e", ".", "t", "x", "t">>
FLAT_TXT     == <<"f", "l", "a", "t", ".", "t", "x", "t">>
PYPROJECT_TOML == <<"p", "y", "p", "r", "o", "j", "e", "c", "t", ".", "t", "o", "m", "l">>

LLMIGNORE_FILENAME == <<".", "l", "l", "m", "i", "g", "n", "o", "r", "e">>

CORE_SYSTEM_EXCLUSIONS == {GIT}

\* the root directory the commands are run on, as Path.parts of its resolved path
RootDir == <<SLASH, PROJ>>

\* a directory that is not under the root
OutsideDir == <<SLASH, ELSEWHERE>>

IsPrefix(a, b) == Len(a) <= Len(b) /\ \A i \in 1..Len(a) : a[i] = b[i]

\* Path.is_relative_to
IsRelativeTo(path, base) == IsPrefix(base, path)

\* Path.relative_to: the parts below base (only asked when IsRelativeTo)
RelativeTo(path, base) == SubSeq(path, Len(base) + 1, Len(path))

\* Path.name
Name(path) == IF path = <<>> THEN <<>> ELSE path[Len(path)]

\* PurePath.as_posix of a relative path ("." for the empty one)
AsPosix(rel) == IF rel = <<>> THEN <<".">> ELSE Join(rel, "/")

\* Path.is_dir / Path.is_file / Path.exists on the modelled file system:
\* fs maps every existing path to "dir" or "file"
Exists(f, path) == path \in DOMAIN f
IsDir(f, path)  == path \in DOMAIN f /\ f[path] = "dir"
IsFile(f, path) == path \in DOMAIN f /\ f[path] = "file"

\* Path.iterdir: the entries of a directory
IterDir(f, dir) == {p \in DOMAIN f : Len(p) = Len(dir) + 1 /\ IsPrefix(dir, p)}

\* every path below dir
Descendants(f, dir) == {p \in DOMAIN f : Len(p) > Len(dir) /\ IsPrefix(dir, p)}

(***************************************************************************)
(* The gitignore matcher the ignore handler builds its spec with           *)
(* (pathspec.PathSpec.from_lines(GitWildMatchPattern, lines)).  A spec is  *)
(* the sequence of its pattern lines; the patterns of the model use the    *)
(* wildcard * only, and have no leading slash and no ** segment.           *)
(***************************************************************************)

\* no spec: load_ignore_patterns returns None, never a spec without patterns
None == <<>>

\* a rule is a negation when its line starts with !
IsNegation(line) == line # <<>> /\ line[1] = "!"

\* the pattern text of a rule, without the negation mark
PatternOf(line) == IF IsNegation(line) THEN Tail(line) ELSE line

\* one pattern segment against one path segment: a lone * is [^/]+
SegMatch(seg, name) == IF seg = <<"*">> THEN name # <<>> ELSE FnMatch(name, seg)

\* does the regular expression of a pattern match the path string `file`:
\*   name        ^(?:.+/)?name(?:/.*)?$        name/     ^(?:.+/)?name/.*$
\*   a/b         ^a/b(?:/.*)?$                 a/b/      ^a/b/.*$
GitWildMatch(pat, file) ==
  LET segs0    == Split(pat, "/")
      isDirPat == segs0[Len(segs0)] = <<>>
      segs     == IF isDirPat THEN SubSeq(segs0, 1, Len(segs0) - 1) ELSE segs0
      n        == Len(segs)
      floating == n = 1
      fsegs    == Split(file, "/")
      need     == IF isDirPat THEN n + 1 ELSE n
      At(k)    == /\ Len(fsegs) >= k + need
                  /\ \A i \in 1..n : SegMatch(segs[i], fsegs[k + i])
  IN  /\ n >= 1
      /\ IF floating THEN \E k \in 0..(Len(fsegs) - 1) : At(k) ELSE At(0)

\* PathSpec.match_file: every pattern in order, the last one that matches decides
RECURSIVE MatchFileFrom(_, _, _, _)
MatchFileFrom(spec, file, i, matched) ==
  IF i > Len(spec) THEN matched
  ELSE MatchFileFrom(spec, file, i + 1,
         IF GitWildMatch(PatternOf(spec[i]), file) THEN ~IsNegation(spec[i]) ELSE matched)

match_file(spec, file) == MatchFileFrom(spec, file, 1, FALSE)

(***************************************************************************)
(* utils/ignore_handler.py                                                 *)
(***************************************************************************)

\* the cleaning of one line of the ignore file: the pattern line it
\* contributes, or <<>> when it contributes none
ProcessLine(line_content) ==
  LET current_line == Strip(line_content)
  IN  IF current_line = <<>> \/ current_line[1] = "#" THEN <<>>
      ELSE LET pattern_part ==
                 IF Contains(current_line, "#")
                 THEN Strip(SubSeq(current_line, 1, IndexOf(current_line, "#") - 1))
                 ELSE current_line
           IN  IF pattern_part = <<>> THEN <<>>
               ELSE IF pattern_part[1] = "!"
                    THEN LET actual_pattern == Strip(Tail(pattern_part))
                         IN  IF actual_pattern # <<>> THEN <<"!">> \o actual_pattern
                             ELSE <<>>
                    ELSE pattern_part

RECURSIVE ProcessLines(_)
ProcessLines(lines) ==
  IF lines = <<>> THEN <<>>
  ELSE LET l == ProcessLine(lines[1])
       IN  (IF l = <<>> THEN <<>> ELSE <<l>>) \o ProcessLines(Tail(lines))

\* the try block raises: open or read fails (OSError, UnicodeDecodeError) or
\* PathSpec.from_lines rejects a pattern; a file is taken to be readable and
\* well-formed unless its state says otherwise
Raises(ignore_file) == "raises" \in DOMAIN ignore_file /\ ignore_file.raises

load_ignore_patterns_NoCatch(ignore_file) ==
  IF ignore_file.exists THEN ProcessLines(ignore_file.lines) ELSE None

\* load_ignore_patterns(root_dir): ignore_file is the state of root/.llmignore,
\* [exists, lines]; `except Exception` returns None
load_ignore_patterns(ignore_file) ==
  IF ignore_file.exists /\ ~Raises(ignore_file) THEN ProcessLines(ignore_file.lines) ELSE None

\* PurePath.match(pattern): the pattern's parts against the last parts of the path
PatParts(pattern) == SelectSeq(Split(pattern, "/"), LAMBDA x : x # <<>> /\ x # <<".">>)

PathMatch(parts, pattern) ==
  LET pat == PatParts(pattern)
  IN  /\ Len(pat) <= Len(parts)
      /\ \A i \in 1..Len(pat) :
           FnMatch(parts[Len(parts) - Len(pat) + i], pat[i])

\* a variant of step 1 that looks at the name of the path only
CoreExcluded_NameOnly(path_to_check_abs) ==
  Name(path_to_check_abs) \in CORE_SYSTEM_EXCLUSIONS

\* step 1 of is_path_ignored: a core-excluded name among the parts of the path
CoreExcluded(path_to_check_abs) ==
  \E i \in 1..Len(path_to_check_abs) :
     /\ path_to_check_abs[i] \in CORE_SYSTEM_EXCLUSIONS
     /\ LET excluded_base == SubSeq(path_to_check_abs, 1, i)
        IN  path_to_check_abs = excluded_base
              \/ IsRelativeTo(path_to_check_abs, excluded_base)

\* a variant of step 2 without the is_dir() guards: a file is also tried in
\* its trailing-slash form
SpecIgnores_NoDirGuard(f, path_to_check_abs, root_dir_abs, ignore_spec) ==
  /\ ignore_spec # None
  /\ IsRelativeTo(path_to_check_abs, root_dir_abs)
  /\ LET path_str_name_only == AsPosix(RelativeTo(path_to_check_abs, root_dir_abs))
     IN  \/ match_file(ignore_spec, path_str_name_only \o <<"/">>)
         \/ match_file(ignore_spec, path_str_name_only)

\* a variant of step 2 that matches the name of the path, not its path below the root
SpecIgnores_NameOnly(f, path_to_check_abs, root_dir_abs, ignore_spec) ==
  /\ ignore_spec # None
  /\ IsRelativeTo(path_to_check_abs, root_dir_abs)
  /\ \/ IsDir(f, path_to_check_abs)
          /\ match_file(ignore_spec, Name(path_to_check_abs) \o <<"/">>)
     \/ match_file(ignore_spec, Name(path_to_check_abs))

\* step 2 of is_path_ignored: the ignore spec, on the path below the root
SpecIgnores(f, path_to_check_abs, root_dir_abs, ignore_spec) ==
  /\ ignore_spec # None
  /\ IsRelativeTo(path_to_check_abs, root_dir_abs)
  /\ LET relative_path_for_spec == RelativeTo(path_to_check_abs, root_dir_abs)
         path_str_name_only == AsPosix(relative_path_for_spec)
         path_str_as_dir ==
           IF IsDir(f, path_to_check_abs)
           THEN IF relative_path_for_spec = <<>> THEN <<".", "/">>
                ELSE path_str_name_only \o <<"/">>
           ELSE path_str_name_only
     IN  \/ IsDir(f, path_to_check_abs) /\ match_file(ignore_spec, path_str_as_dir)
         \/ match_file(ignore_spec, path_str_name_only)

\* step 3 of is_path_ignored: one CLI pattern
CliPatternIgnores(f, path_to_check_abs, root_dir_abs, pattern) ==
  LET filename == Name(path_to_check_abs)
  IN  \/ filename = pattern
      \/ PathMatch(<<filename>>, pattern)
      \/ /\ IsRelativeTo(path_to_check_abs, root_dir_abs)
         /\ LET rel == RelativeTo(path_to_check_abs, root_dir_abs)
                rel_path_str_cli == AsPosix(rel)
            IN  \/ /\ pattern[Len(pattern)] = "/"
                   /\ IsDir(f, path_to_check_abs)
                   /\ \/ (IF rel_path_str_cli[Len(rel_path_str_cli)] = "/"
                          THEN rel_path_str_cli
                          ELSE rel_path_str_cli \o <<"/">>) = pattern
                      \/ Name(rel) \o <<"/">> = pattern
                \/ PathMatch(rel, pattern)

is_path_ignored_NegationWins(f, path_to_check, root_dir, ignore_spec, cli_ignore_patterns) ==
  \/ CoreExcluded(path_to_check)
  \/ SpecIgnores(f, path_to_check, root_dir, ignore_spec)
  \/ /\ ~\E i \in 1..Len(ignore_spec) :
            /\ IsNegation(ignore_spec[i])
            /\ IsRelativeTo(path_to_check, root_dir)
            /\ GitWildMatch(PatternOf(ignore_spec[i]),
                            AsPosix(RelativeTo(path_to_check, root_dir)))
     /\ \E k \in 1..Len(cli_ignore_patterns) :
           CliPatternIgnores(f, path_to_check, root_dir, cli_ignore_patterns[k])

is_path_ignored(f, path_to_check, root_dir, ignore_spec, cli_ignore_patterns) ==
  \/ CoreExcluded(path_to_check)
  \/ SpecIgnores(f, path_to_check, root_dir, ignore_spec)
  \/ \E k \in 1..Len(cli_ignore_patterns) :
        CliPatternIgnores(f, path_to_check, root_dir, cli_ignore_patterns[k])

(***************************************************************************)
(* tools/tree_generator.py                                                 *)
(***************************************************************************)

DEFAULT_EXCLUDED_ITEMS_TOOL_SPECIFIC ==
  { <<".", "g", "i", "t">>,
    <<".", "h", "g">>,
    <<".", "s", "v", "n">>,
    <<"_", "_", "p", "y", "c", "a", "c", "h", "e", "_", "_">>,
    <<"*", ".", "p", "y", "c">>,
    <<"*", ".", "p", "y", "o">>,
    <<"*", ".", "p", "y", "d">>,
    <<".", "p", "y", "t", "e", "s", "t", "_", "c", "a", "c", "h", "e">>,
    <<".", "m", "y", "p", "y", "_", "c", "a", "c", "h", "e">>,
    <<".", "r", "u", "f", "f", "_", "c", "a", "c", "h", "e">>,
    <<"v", "e", "n", "v">>,
    <<".", "v", "e", "n", "v">>,
    <<"e", "n", "v">>,
    <<".", "e", "n", "v">>,
    <<"p", "i", "p", "-", "w", "h", "e", "e", "l", "-", "m", "e", "t", "a", "d", "a", "t", "a">>,
    <<"*", ".", "e", "g", "g", "-", "i", "n", "f", "o">>,
    <<"n", "o", "d", "e", "_", "m", "o", "d", "u", "l", "e", "s">>,
    <<"p", "a", "c", "k", "a", "g", "e", "-", "l", "o", "c", "k", ".", "j", "s", "o", "n">>,
    <<"y", "a", "r", "n", ".", "l", "o", "c", "k">>,
    <<".", "v", "s", "c", "o", "d", "e">>,
    <<".", "i", "d", "e", "a">>,
    <<"*", ".", "i", "m", "l">>,
    <<"d", "i", "s", "t">>,
    <<"b", "u", "i", "l", "d">>,
    <<"t", "a", "r", "g", "e", "t">>,
    <<"o", "u", "t">>,
    <<".", "D", "S", "_", "S", "t", "o", "r", "e">>,
    <<"T", "h", "u", "m", "b", "s", ".", "d", "b">> }

_should_skip_this_item_name_fallback(item_name, fallback_exclusions) ==
  \/ item_name \in fallback_exclusions
  \/ \E pattern \in fallback_exclusions :
        /\ StartsWith(pattern, <<"*", ".">>)
        /\ EndsWith(item_name, Tail(pattern))

_should_show_path(f, path, root_dir_for_ignores, llmignore_spec, cli_ignores, tool_specific_fallback_exclusions) ==
  IF llmignore_spec # None /\ IsRelativeTo(path, root_dir_for_ignores)
  THEN LET rel      == RelativeTo(path, root_dir_for_ignores)
           path_str == IF IsDir(f, path) THEN AsPosix(rel) \o <<"/">> ELSE AsPosix(rel)
       IN  ~match_file(llmignore_spec, path_str)
  ELSE LET is_ignored ==
             is_path_ignored(f, path, root_dir_for_ignores, llmignore_spec, cli_ignores)
       IN  ~(is_ignored \/ (llmignore_spec = None
                             /\ _should_skip_this_item_name_fallback(
                                  Name(path), tool_specific_fallback_exclusions)))

\* the sort key of the walk: (x.is_file(), x.name.lower())
KeyLess(f, a, b) ==
  \/ ~IsFile(f, a) /\ IsFile(f, b)
  \/ IsFile(f, a) = IsFile(f, b) /\ StrLess(LowerStr(Name(a)), LowerStr(Name(b)))

\* sorted(current_dir.iterdir(), key=...)
\* the order in which iterdir yields two entries of a directory: the file
\* system lists by name, upwards or downwards
ListingOrders == {"ascending", "descending"}

ListedBefore(a, b) ==
  IF listing = "ascending" THEN StrLess(Name(a), Name(b)) ELSE StrLess(Name(b), Name(a))

\* sorted(current_dir.iterdir(), key=...): the sort is stable, entries with
\* equal keys stay in the order of the listing
RECURSIVE SortedByKey(_, _)
SortedByKey(f, S) ==
  IF S = {} THEN <<>>
  ELSE LET FirstThenRest(m) == <<m>> \o SortedByKey(f, S \ {m})
       IN  FirstThenRest(CHOOSE x \in S : \A y \in S \ {x} :
                            \/ KeyLess(f, x, y)
                            \/ ~KeyLess(f, y, x) /\ ListedBefore(x, y))

\* The pieces of a rendered line.  A line is a sequence of tokens: the
\* four-column indentation and connector units, then the characters of the
\* name.  ELBOW stands for the unit drawn as an elbow followed by two dashes
\* and a space, TEE for the tee unit, PIPE for the vertical bar unit.
ELBOW == "+-- "
TEE   == "|-- "
PIPE  == "|   "
BLANK == "    "
DENIED_OPEN  == "[dim italic](Permission Denied for "
DENIED_CLOSE == "/)[/dim italic]"

\* a variant of the display decision without the rescue of directories
ShouldDisplay_NoRescue(is_displayed, is_dir, generated_child_lines) == is_displayed

\* should_display = is_displayed or (child_path.is_dir() and generated_child_lines)
ShouldDisplay(is_displayed, is_dir, generated_child_lines) ==
  is_displayed \/ (is_dir /\ generated_child_lines # <<>>)

\* _generate_tree_lines_recursive; den is the set of directories whose
\* listing raises PermissionError.  ProcessChildren is its first loop: for
\* every child in sorted order, the entry of child_to_displayed_lines
\* (should_display, generated_child_lines).  RenderChildren is its second
\* loop, over the entries that are displayed.
RECURSIVE _generate_tree_lines_recursive(_, _, _, _, _, _, _, _, _)
RECURSIVE ProcessChildren(_, _, _, _, _, _, _)
RECURSIVE RenderChildren(_, _, _, _)

ProcessChildren(f, den, children, root_dir_for_ignores, llmignore_spec, cli_ignores, tool_specific_fallback_exclusions) ==
  IF children = <<>> THEN <<>>
  ELSE LET child_path == children[1]
           Entry(is_displayed, generated_child_lines) ==
             [path |-> child_path,
              should_display |-> ShouldDisplay(is_displayed, IsDir(f, child_path),
                                               generated_child_lines),
              lines |-> generated_child_lines]
       IN  << Entry(_should_show_path(f, child_path, root_dir_for_ignores, llmignore_spec,
                                      cli_ignores, tool_specific_fallback_exclusions),
                    IF IsDir(f, child_path)
                    THEN _generate_tree_lines_recursive(f, den, child_path,
                           root_dir_for_ignores, llmignore_spec, cli_ignores,
                           tool_specific_fallback_exclusions, <<>>, FALSE)
                    ELSE <<>>) >>
           \o ProcessChildren(f, den, Tail(children), root_dir_for_ignores, llmignore_spec,
                              cli_ignores, tool_specific_fallback_exclusions)

RenderChildren(f, displayable_children, displayed_count, parent_prefix) ==
  IF displayed_count > Len(displayable_children) THEN <<>>
  ELSE LET num_displayable == Len(displayable_children)
           child        == displayable_children[displayed_count]
           connector    == IF displayed_count = num_displayable THEN ELBOW ELSE TEE
           child_prefix == IF connector = ELBOW THEN BLANK ELSE PIPE
       IN  << parent_prefix \o <<connector>> \o Name(child.path)
                \o (IF IsDir(f, child.path) THEN <<"/">> ELSE <<>>) >>
           \o [i \in 1..Len(child.lines) |->
                 parent_prefix \o <<child_prefix>> \o child.lines[i]]
           \o RenderChildren(f, displayable_children, displayed_count + 1, parent_prefix)

DeniedLines_None(parent_prefix, current_dir) == <<>>

\* except PermissionError: the annotation line, and the return
DeniedLines(parent_prefix, current_dir) ==
  << parent_prefix \o <<ELBOW, DENIED_OPEN>> \o Name(current_dir) \o <<DENIED_CLOSE>> >>

_generate_tree_lines_recursive(f, den, current_dir, root_dir_for_ignores, llmignore_spec, cli_ignores, tool_specific_fallback_exclusions, parent_prefix, is_root_call_for_display) ==
  (IF is_root_call_for_display THEN << Name(current_dir) \o <<"/">> >> ELSE <<>>)
  \o (IF current_dir \in den
      THEN DeniedLines(parent_prefix, current_dir)
      ELSE RenderChildren(f,
             SelectSeq(ProcessChildren(f, den, SortedByKey(f, IterDir(f, current_dir)),
                                       root_dir_for_ignores, llmignore_spec, cli_ignores,
                                       tool_specific_fallback_exclusions),
                       LAMBDA r : r.should_display),
             1, parent_prefix))

\* The labels of the Rich tree: FOLDER and PAGE stand for the folder and the
\* page pictographs (each followed by a space).
FOLDER == "[folder] "
PAGE   == "[page] "
DENIED_RICH == "[dim italic](Permission Denied)[/dim italic]"

RichShouldDisplay_NoRescue(is_child_itself_displayable, is_dir, has_displayable_descendants) ==
  is_child_itself_displayable

\* should_display of the Rich renderer:
\* is_child_itself_displayable or (child_path.is_dir() and has_displayable_descendants)
RichShouldDisplay(is_child_itself_displayable, is_dir, has_displayable_descendants) ==
  is_child_itself_displayable \/ (is_dir /\ has_displayable_descendants)

\* _add_nodes_to_rich_tree_recursive: the children it adds to rich_tree_node,
\* each a node [label, children].  RichFirstPass is its first loop
\* (child_processing_results), RichSecondPass its second.
RECURSIVE _add_nodes_to_rich_tree_recursive(_, _, _, _, _, _, _)
RECURSIVE RichFirstPass(_, _, _, _, _, _, _)
RECURSIVE RichSecondPass(_, _, _, _, _, _, _, _)

RichFirstPass(f, den, children, root_dir_for_ignores, llmignore_spec, cli_ignores, tool_specific_fallback_exclusions) ==
  IF children = <<>> THEN <<>>
  ELSE LET child_path == children[1]
           is_child_itself_displayable ==
             _should_show_path(f, child_path, root_dir_for_ignores, llmignore_spec,
                               cli_ignores, tool_specific_fallback_exclusions)
           temp_dummy_branch ==
             IF IsDir(f, child_path)
             THEN _add_nodes_to_rich_tree_recursive(f, den, child_path, root_dir_for_ignores,
                    llmignore_spec, cli_ignores, tool_specific_fallback_exclusions)
             ELSE <<>>
       IN  (IF RichShouldDisplay(is_child_itself_displayable, IsDir(f, child_path),
                                 temp_dummy_branch # <<>>)
            THEN <<child_path>> ELSE <<>>)
           \o RichFirstPass(f, den, Tail(children), root_dir_for_ignores, llmignore_spec,
                            cli_ignores, tool_specific_fallback_exclusions)

RichSecondPass(f, den, displayable_children, i, root_dir_for_ignores, llmignore_spec, cli_ignores, tool_specific_fallback_exclusions) ==
  IF i > Len(displayable_children) THEN <<>>
  ELSE LET child_path == displayable_children[i]
           connector  == IF i = Len(displayable_children) THEN ELBOW ELSE TEE
           node ==
             IF IsDir(f, child_path)
             THEN [label    |-> <<connector, FOLDER>> \o Name(child_path),
                   children |-> _add_nodes_to_rich_tree_recursive(f, den, child_path,
                                  root_dir_for_ignores, llmignore_spec, cli_ignores,
                                  tool_specific_fallback_exclusions)]
             ELSE [label    |-> <<connector, PAGE>> \o Name(child_path),
                   children |-> <<>>]
       IN  <<node>> \o RichSecondPass(f, den, displayable_children, i + 1,
                         root_dir_for_ignores, llmignore_spec, cli_ignores,
                         tool_specific_fallback_exclusions)

_add_nodes_to_rich_tree_recursive(f, den, current_path_obj, root_dir_for_ignores, llmignore_spec, cli_ignores, tool_specific_fallback_exclusions) ==
  IF current_path_obj \in den
  THEN << [label |-> <<DENIED_RICH>>, children |-> <<>>] >>
  ELSE RichSecondPass(f, den,
         RichFirstPass(f, den, SortedByKey(f, IterDir(f, current_path_obj)),
                       root_dir_for_ignores, llmignore_spec, cli_ignores,
                       tool_specific_fallback_exclusions),
         1, root_dir_for_ignores, llmignore_spec, cli_ignores,
         tool_specific_fallback_exclusions)

\* the Rich tree printed when there is no output file
rich_tree(f, den, root_dir, ignore_file, ignore_list) ==
  _add_nodes_to_rich_tree_recursive(f, den, root_dir, root_dir,
      load_ignore_patterns(ignore_file), ignore_list,
      DEFAULT_EXCLUDED_ITEMS_TOOL_SPECIFIC)

\* generate_and_output_tree, the branch that writes the tree to a file:
\* the effective CLI ignore list of the run
effective_cli_ignores(root_dir, output_file_path, ignore_list) ==
  IF /\ output_file_path # <<>>
     /\ IsRelativeTo(output_file_path, root_dir)
     /\ \A k \in 1..Len(ignore_list) : ignore_list[k] # Name(output_file_path)
  THEN Append(ignore_list, Name(output_file_path))
  ELSE ignore_list

\* the lines written to the output file
tree_lines(f, den, root_dir, ignore_file, output_file_path, ignore_list) ==
  _generate_tree_lines_recursive(f, den, root_dir, root_dir,
      load_ignore_patterns(ignore_file),
      effective_cli_ignores(root_dir, output_file_path, ignore_list),
      DEFAULT_EXCLUDED_ITEMS_TOOL_SPECIFIC, <<>>, TRUE)

\* output_file_path.parent.mkdir(parents=True, exist_ok=True) and the write
WriteFile(f, path) ==
  [p \in DOMAIN f \cup {SubSeq(path, 1, k) : k \in 1..Len(path)} |->
     IF p = path THEN "file" ELSE IF p \in DOMAIN f THEN f[p] ELSE "dir"]

\* the write fails (OSError) when the path is a directory or a parent is a file
CanWrite(f, path) ==
  /\ ~IsDir(f, path)
  /\ \A k \in 1..(Len(path) - 1) : ~IsFile(f, SubSeq(path, 1, k))

(***************************************************************************)
(* tools/flattener.py                                                      *)
(***************************************************************************)

DEFAULT_EXCLUDED_ITEMS_GENERAL_FOR_WALK_FALLBACK ==
  { <<".", "g", "i", "t">>,
    <<".", "h", "g">>,
    <<".", "s", "v", "n">>,
    <<"_", "_", "p", "y", "c", "a", "c", "h", "e", "_", "_">>,
    <<"*", ".", "p", "y", "c">>,
    <<"*", ".", "p", "y", "o">>,
    <<"*", ".", "p", "y", "d">>,
    <<".", "p", "y", "t", "e", "s", "t", "_", "c", "a", "c", "h", "e">>,
    <<".", "m", "y", "p", "y", "_", "c", "a", "c", "h", "e">>,
    <<".", "r", "u", "f", "f", "_", "c", "a", "c", "h", "e">>,
    <<"v", "e", "n", "v">>,
    <<".", "v", "e", "n", "v">>,
    <<"e", "n", "v">>,
    <<".", "e", "n", "v">>,
    <<"p", "i", "p", "-", "w", "h", "e", "e", "l", "-", "m", "e", "t", "a", "d", "a", "t", "a">>,
    <<"*", ".", "e", "g", "g", "-", "i", "n", "f", "o">>,
    <<"n", "o", "d", "e", "_", "m", "o", "d", "u", "l", "e", "s">>,
    <<"p", "a", "c", "k", "a", "g", "e", "-", "l", "o", "c", "k", ".", "j", "s", "o", "n">>,
    <<"y", "a", "r", "n", ".", "l", "o", "c", "k">>,
    <<".", "v", "s", "c", "o", "d", "e">>,
    <<".", "i", "d", "e", "a">>,
    <<"*", ".", "i", "m", "l">>,
    <<"d", "i", "s", "t">>,
    <<"b", "u", "i", "l", "d">>,
    <<"t", "a", "r", "g", "e", "t">>,
    <<"o", "u", "t">>,
    <<".", "D", "S", "_", "S", "t", "o", "r", "e">>,
    <<"T", "h", "u", "m", "b", "s", ".", "d", "b">>,
    <<"*", ".", "l", "o", "g">>,
    <<"*", ".", "t", "m", "p">>,
    <<"*", ".", "s", "w", "p">> }

DEFAULT_INCLUDE_PATTERNS ==
  << <<".", "p", "y">>,
    <<".", "p", "y", "w">>,
    <<".", "p", "y", "x">>,
    <<".", "p", "y", "d">>,
    <<".", "p", "x", "d">>,
    <<".", "j", "s">>,
    <<".", "j", "s", "x">>,
    <<".", "m", "j", "s">>,
    <<".", "c", "j", "s">>,
    <<".", "t", "s">>,
    <<".", "t", "s", "x">>,
    <<".", "m", "t", "s">>,
    <<".", "c", "t", "s">>,
    <<".", "h", "t", "m", "l">>,
    <<".", "h", "t", "m">>,
    <<".", "c", "s", "s">>,
    <<".", "s", "c", "s", "s">>,
    <<".", "s", "a", "s", "s">>,
    <<".", "l", "e", "s", "s">>,
    <<".", "s", "t", "y", "l">>,
    <<".", "j", "a", "v", "a">>,
    <<".", "k", "t">>,
    <<".", "k", "t", "s">>,
    <<".", "s", "c", "a", "l", "a">>,
    <<".", "g", "r", "o", "o", "v", "y">>,
    <<".", "g", "r", "a", "d", "l", "e">>,
    <<".", "c">>,
    <<".", "c", "p", "p">>,
    <<".", "h">>,
    <<".", "h", "p", "p">>,
    <<".", "m">>,
    <<".", "m", "m">>,
    <<".", "c", "s">>,
    <<".", "v", "b">>,
    <<".", "g", "o">>,
    <<".", "r", "s">>,
    <<".", "r", "b">>,
    <<".", "p", "h", "p">>,
    <<".", "p", "h", "t", "m", "l">>,
    <<".", "s", "w", "i", "f", "t">>,
    <<".", "s", "h">>,
    <<".", "b", "a", "s", "h">>,
    <<".", "z", "s", "h">>,
    <<".", "p", "s", "1">>,
    <<".", "b", "a", "t">>,
    <<".", "c", "m", "d">>,
    <<".", "m", "d">>,
    <<".", "m", "a", "r", "k", "d", "o", "w", "n">>,
    <<".", "r", "s", "t">>,
    <<".", "t", "x", "t">>,
    <<".", "t", "e", "x", "t">>,
    <<".", "j", "s", "o", "n">>,
    <<".", "j", "s", "o", "n", "c">>,
    <<".", "j", "s", "o", "n", "5">>,
    <<".", "y", "a", "m", "l">>,
    <<".", "y", "m", "l">>,
    <<".", "x", "m", "l">>,
    <<".", "t", "o", "m", "l">>,
    <<".", "i", "n", "i">>,
    <<".", "c", "f", "g">>,
    <<".", "c", "o", "n", "f">>,
    <<".", "c", "s", "v">>,
    <<".", "t", "s", "v">>,
    <<"D", "o", "c", "k", "e", "r", "f", "i", "l", "e">>,
    <<".", "d", "o", "c", "k", "e", "r", "f", "i", "l", "e">>,
    <<"d", "o", "c", "k", "e", "r", "-", "c", "o", "m", "p", "o", "s", "e", ".", "y", "m", "l">>,
    <<"d", "o", "c", "k", "e", "r", "-", "c", "o", "m", "p", "o", "s", "e", ".", "y", "a", "m", "l">>,
    <<".", "s", "q", "l">>,
    <<".", "e", "n", "v", ".", "e", "x", "a", "m", "p", "l", "e">>,
    <<".", "g", "i", "t", "a", "t", "t", "r", "i", "b", "u", "t", "e", "s">>,
    <<".", "g", "i", "t", "m", "o", "d", "u", "l", "e", "s">>,
    <<".", "e", "d", "i", "t", "o", "r", "c", "o", "n", "f", "i", "g">>,
    <<"R", "E", "A", "D", "M", "E">>,
    <<"L", "I", "C", "E", "N", "S", "E">>,
    <<"C", "O", "N", "T", "R", "I", "B", "U", "T", "I", "N", "G">>,
    <<"N", "O", "T", "I", "C", "E">>,
    <<"C", "H", "A", "N", "G", "E", "L", "O", "G">> >>

\* Path.suffix: from the last dot of the name, unless that dot is the first
\* or the last character
Suffix(name) ==
  LET dots == {i \in 1..Len(name) : name[i] = "."}
      From(i) == IF 1 < i /\ i < Len(name) THEN SubSeq(name, i, Len(name)) ELSE <<>>
  IN  IF dots = {} THEN <<>> ELSE From(CHOOSE i \in dots : \A j \in dots : j <= i)

\* one pattern of the loop of _file_matches_include_criteria
PatternIncludes(file_name, pattern) ==
  IF StartsWith(pattern, <<".">>)
  THEN LowerStr(Suffix(file_name)) = LowerStr(pattern)
  ELSE IF StartsWith(pattern, <<"*", ".">>)
       THEN LowerStr(Suffix(file_name)) = LowerStr(Tail(pattern))
       ELSE PathMatch(<<file_name>>, pattern)

_file_matches_include_criteria(file_path, cli_include_patterns) ==
  LET AnyOf(active_patterns) ==
        \/ active_patterns = <<>>
        \/ \E k \in 1..Len(active_patterns) :
              PatternIncludes(Name(file_path), active_patterns[k])
  IN  AnyOf(IF cli_include_patterns # <<>> THEN cli_include_patterns
            ELSE DEFAULT_INCLUDE_PATTERNS)

\* dir_name == fallback_pattern or Path(dir_name).match(fallback_pattern), for
\* some pattern of the fallback set
FallbackMatches(name) ==
  \E fallback_pattern \in DEFAULT_EXCLUDED_ITEMS_GENERAL_FOR_WALK_FALLBACK :
     name = fallback_pattern \/ PathMatch(<<name>>, fallback_pattern)

\* the files os.walk(top) yields: a directory whose listing fails yields
\* nothing (os.walk ignores the error), den is the set of such directories
WalkedFiles(f, den, top) ==
  {q \in Descendants(f, top) :
     /\ IsFile(f, q)
     /\ \A k \in Len(top)..(Len(q) - 1) : SubSeq(q, 1, k) \notin den}

_directory_has_unignored_files_Never(f, den, dir_path, root_dir, llmignore_spec, cli_ignores) ==
  FALSE

_directory_has_unignored_files(f, den, dir_path, root_dir, llmignore_spec, cli_ignores) ==
  \E file_path \in WalkedFiles(f, den, dir_path) :
     ~is_path_ignored(f, file_path, root_dir, llmignore_spec, cli_ignores)

\* sorted(files): by name, in string order
RECURSIVE SortedByName(_)
SortedByName(S) ==
  IF S = {} THEN <<>>
  ELSE LET FirstThenRest(m) == <<m>> \o SortedByName(S \ {m})
       IN  FirstThenRest(CHOOSE x \in S : \A y \in S : ~StrLess(Name(y), Name(x)))

\* the directory pruning logic: dir_path_abs is deleted from dirs
PruneDir(f, den, dir_path_abs, root_dir_path, llmignore_spec, cli_ignores) ==
  IF is_path_ignored(f, dir_path_abs, root_dir_path, llmignore_spec, cli_ignores)
  THEN ~_directory_has_unignored_files(f, den, dir_path_abs, root_dir_path,
                                       llmignore_spec, cli_ignores)
  ELSE llmignore_spec = None /\ FallbackMatches(Name(dir_path_abs))

\* os.walk(root_dir_path, topdown=True) with the pruning of dirs: the files in
\* the order the loop reaches them (the files of a directory sorted, then the
\* directories that were kept; the order in which the operating system lists
\* directories is taken to be the name order)
RECURSIVE WalkOrder(_, _, _, _, _, _)
RECURSIVE WalkDirs(_, _, _, _, _, _)

WalkDirs(f, den, dirs, root_dir_path, llmignore_spec, cli_ignores) ==
  IF dirs = <<>> THEN <<>>
  ELSE WalkOrder(f, den, dirs[1], root_dir_path, llmignore_spec, cli_ignores)
       \o WalkDirs(f, den, Tail(dirs), root_dir_path, llmignore_spec, cli_ignores)

WalkOrder(f, den, current_subdir_path, root_dir_path, llmignore_spec, cli_ignores) ==
  IF current_subdir_path \in den \/ ~IsDir(f, current_subdir_path) THEN <<>>
  ELSE SortedByName({p \in IterDir(f, current_subdir_path) : IsFile(f, p)})
       \o WalkDirs(f, den,
            SortedByName({d \in IterDir(f, current_subdir_path) :
                            /\ IsDir(f, d)
                            /\ ~PruneDir(f, den, d, root_dir_path, llmignore_spec,
                                         cli_ignores)}),
            root_dir_path, llmignore_spec, cli_ignores)

\* binfile.read(1024)
READ_SIZE == 1024

\* what is known of a file's bytes: the offset of its first NUL byte (0: none)
\* and whether opening it succeeds; cont holds the files that are not plain text
TextFile == [nul |-> 0, readable |-> TRUE]

ContentOf(cont, file_path) ==
  IF file_path \in DOMAIN cont THEN cont[file_path] ELSE TextFile

NulInStartBytes_FirstByteOnly(c) == c.nul = 1

\* b"\x00" in start_bytes
NulInStartBytes(c) == c.nul >= 1 /\ c.nul <= READ_SIZE

\* the state of the loop: flattened_content_parts and the two counters
NoParts ==
  [parts |-> <<>>, files_processed_count |-> 0, files_skipped_binary_count |-> 0]

\* a variant that counts a file whose read fails as processed
EmitFile_CountsErrors(cont, st, file_path, root_dir_path) ==
  LET Emit(relative_path_str, c) ==
        IF ~c.readable
        THEN [st EXCEPT !.parts = Append(@, [kind |-> "error", path |-> relative_path_str]),
                        !.files_processed_count = @ + 1]
        ELSE IF NulInStartBytes(c)
        THEN [st EXCEPT
                !.parts = Append(@, [kind |-> "skipped", path |-> relative_path_str]),
                !.files_skipped_binary_count = @ + 1]
        ELSE [st EXCEPT
                !.parts = @ \o << [kind |-> "file", path |-> relative_path_str],
                                  [kind |-> "content", path |-> relative_path_str] >>,
                !.files_processed_count = @ + 1]
  IN  Emit(RelativeTo(file_path, root_dir_path), ContentOf(cont, file_path))

\* the file processing logic: the binary check, the read, the appends
EmitFile(cont, st, file_path, root_dir_path) ==
  LET Emit(relative_path_str, c) ==
        IF ~c.readable
        THEN [st EXCEPT !.parts = Append(@, [kind |-> "error", path |-> relative_path_str])]
        ELSE IF NulInStartBytes(c)
        THEN [st EXCEPT
                !.parts = Append(@, [kind |-> "skipped", path |-> relative_path_str]),
                !.files_skipped_binary_count = @ + 1]
        ELSE [st EXCEPT
                !.parts = @ \o << [kind |-> "file", path |-> relative_path_str],
                                  [kind |-> "content", path |-> relative_path_str] >>,
                !.files_processed_count = @ + 1]
  IN  Emit(RelativeTo(file_path, root_dir_path), ContentOf(cont, file_path))

ProcessFile_NoIncludeGate(f, cont, st, file_path, root_dir_path, llmignore_spec, cli_ignores, include_patterns) ==
  IF is_path_ignored(f, file_path, root_dir_path, llmignore_spec, cli_ignores)
  THEN st
  ELSE IF llmignore_spec = None /\ FallbackMatches(Name(file_path))
  THEN st
  ELSE EmitFile(cont, st, file_path, root_dir_path)

\* the body of the loop over sorted(files) for one file
ProcessFile(f, cont, st, file_path, root_dir_path, llmignore_spec, cli_ignores, include_patterns) ==
  IF is_path_ignored(f, file_path, root_dir_path, llmignore_spec, cli_ignores)
  THEN st
  ELSE IF llmignore_spec = None /\ FallbackMatches(Name(file_path))
  THEN st
  ELSE IF ~_file_matches_include_criteria(file_path, include_patterns)
  THEN st
  ELSE EmitFile(cont, st, file_path, root_dir_path)

RECURSIVE ProcessFiles(_, _, _, _, _, _, _, _)
ProcessFiles(f, cont, st, files, root_dir_path, llmignore_spec, cli_ignores, include_patterns) ==
  IF files = <<>> THEN st
  ELSE ProcessFiles(f, cont,
         ProcessFile(f, cont, st, files[1], root_dir_path, llmignore_spec,
                     cli_ignores, include_patterns),
         Tail(files), root_dir_path, llmignore_spec, cli_ignores,
         include_patterns)

\* effective_cli_ignores of flatten_code_logic
flatten_effective_cli_ignores(root_dir_path, output_file_path, exclude_patterns) ==
  IF /\ output_file_path # <<>>
     /\ IsRelativeTo(output_file_path, root_dir_path)
     /\ \A k \in 1..Len(exclude_patterns) : exclude_patterns[k] # Name(output_file_path)
  THEN Append(exclude_patterns, Name(output_file_path))
  ELSE exclude_patterns

\* the walk of flatten_code_logic: the files the loop reaches, in order, and
\* the parts and the counters at its end
flatten_walk(f, den, cont, root_dir_path, ignore_file, output_file_path, include_patterns, exclude_patterns) ==
  LET Walk(llmignore_spec, cli) ==
        LET Over(files) ==
              [reached |-> files,
               flat |-> ProcessFiles(f, cont, NoParts, files, root_dir_path,
                                     llmignore_spec, cli, include_patterns)]
        IN  Over(WalkOrder(f, den, root_dir_path, root_dir_path, llmignore_spec, cli))
  IN  Walk(load_ignore_patterns(ignore_file),
           flatten_effective_cli_ignores(root_dir_path, output_file_path, exclude_patterns))

(***************************************************************************)
(* The inputs of the model                                                 *)
(***************************************************************************)

\* the longest ignore file, in lines
MaxRules == 2

\* the lines an ignore file is written from
IgnoreLines ==
  { <<"*", ".", "l", "o", "g">>,
    <<"!", "i", "m", "p", "o", "r", "t", "a", "n", "t", ".", "l", "o", "g">>,
    <<"b", "u", "i", "l", "d", "/">>,
    <<"!", "b", "u", "i", "l", "d", "/", "k", "e", "e", "p", ".", "t", "x", "t">>,
    <<"b", "u", "i", "l", "d">>,
    <<"!", "b", "u", "i", "l", "d", "/">>,
    <<".", "g", "i", "t", "/">>,
    <<"!", ".", "g", "i", "t", "/", "k", "e", "e", "p", ".", "t", "x", "t">>,
    <<"!", ".", "g", "i", "t">>,
    <<"!", ".", "g", "i", "t", "/", "c", "o", "n", "f", "i", "g">>,
    <<"n", "o", "d", "e", "_", "m", "o", "d", "u", "l", "e", "s", "/", "p", "k", "g", "/">>,
    <<"!", "n", "o", "d", "e", "_", "m", "o", "d", "u", "l", "e", "s", "/", "p", "k", "g", "/", "k", "e", "e", "p", ".", "t", "x", "t">>,
    <<" ", " ", "!", " ", " ", "b", "u", "i", "l", "d", "/", "k", "e", "e", "p", ".", "t", "x", "t", " ", " ", "#", " ", "k", "e", "p", "t">> }

RECURSIVE SeqsUpTo(_, _)
SeqsUpTo(S, n) ==
  IF n = 0 THEN {<<>>}
  ELSE LET shorter == SeqsUpTo(S, n - 1)
       IN  shorter \cup {Append(q, x) : q \in shorter, x \in S}

NoIgnoreFile == [exists |-> FALSE, lines |-> <<>>]

IgnoreFiles ==
  {NoIgnoreFile} \cup {[exists |-> TRUE, lines |-> l] : l \in SeqsUpTo(IgnoreLines, MaxRules)}

\* a file system from the files below the root: every ancestor is a directory
MkFs(files) ==
  LET abs   == {RootDir \o r : r \in files}
                 \cup {OutsideDir \o <<GIT, CONFIG>>, OutsideDir \o <<OTHER_TXT>>}
      paths == UNION {{SubSeq(p, 1, k) : k \in 1..Len(p)} : p \in abs}
  IN  [p \in paths |-> IF p \in abs THEN "file" ELSE "dir"]

\* the project of the tests: a repository with a build directory
FsProject ==
  MkFs({ <<GIT, CONFIG>>, <<GIT, KEEP_TXT>>,
         <<BUILD, KEEP_TXT>>, <<BUILD, OTHER_TXT>>, <<BUILDX>>,
         <<IMPORTANT_LOG>>,
         <<NODE_MODULES, PKG, INDEX_JS>>, <<NODE_MODULES, PKG, KEEP_TXT>>,
         <<SRC, MAIN_PY>> })

\* the same names as regular files: `build` and `.git` (a worktree's .git file)
FsFlat ==
  MkFs({ <<GIT>>, <<BUILD>>, <<BUILDX>>, <<IMPORTANT_LOG>>, <<SRC, MAIN_PY>> })

FileSystems == {FsProject, FsFlat}

WithIgnoreFile(f, ignore_file) ==
  IF ignore_file.exists THEN WriteFile(f, RootDir \o <<LLMIGNORE_FILENAME>>) ELSE f

\* the CLI ignore lists (--ignore)
CliLists ==
  { <<>>,
    << SRC >>,
    << NODE_MODULES, BUILD >>,
    << <<"*", ".", "l", "o", "g">>, <<"b", "u", "i", "l", "d", "/">> >> }

\* the paths is_path_ignored is asked about
QueryPaths(f) == DOMAIN f \ {<<SLASH>>, RootDir, OutsideDir}

NoCall ==
  [op |-> "none", path |-> <<>>, spec |-> <<>>, cli |-> <<>>, answer |-> FALSE,
   output |-> <<>>, lines |-> <<>>, exit_code |-> 0, walked |-> <<>>, den |-> {},
   rich |-> <<>>, root |-> <<>>, include |-> <<>>, flat |-> NoParts, reached |-> <<>>,
   cont |-> <<>>, frames |-> <<>>]

(***************************************************************************)
(* The resolver: one call of is_path_ignored on a file system and an       *)
(* ignore file drawn from the inputs                                       *)
(***************************************************************************)

InitResolver ==
  /\ \E f \in FileSystems, i \in IgnoreFiles :
        /\ fs = WithIgnoreFile(f, i)
        /\ llmignore = i
  /\ denied = {}
  /\ listing = "ascending"
  /\ pyproject = [exists |-> FALSE]
  /\ content = <<>>
  /\ objects = <<>>
  /\ last = NoCall

IsPathIgnored(path, cli) ==
  /\ last.op = "none"
  /\ last' = [NoCall EXCEPT
                !.op = "is_path_ignored", !.path = path,
                !.spec = load_ignore_patterns(llmignore), !.cli = cli,
                !.answer = is_path_ignored(fs, path, RootDir,
                                           load_ignore_patterns(llmignore), cli)]
  /\ UNCHANGED <<fs, denied, llmignore, pyproject, content, objects, listing>>

\* the CLI lists of the resolver calls: those of the commands, a glob on
\* the relative path, `node_modules/*`, and a lone directory pattern, `build/`
NODE_MODULES_STAR == NODE_MODULES \o <<"/", "*">>

BUILD_DIR == BUILD \o <<"/">>

ResolverCliLists == CliLists \cup { << NODE_MODULES_STAR >>, << BUILD_DIR >> }

NextResolver == \E path \in QueryPaths(fs), cli \in ResolverCliLists : IsPathIgnored(path, cli)

SpecResolver == InitResolver /\ [][NextResolver]_vars

(***************************************************************************)
(* Claims about the resolver (SpecResolver)                                *)
(***************************************************************************)

Asked == last.op = "is_path_ignored"

\* the path asked about, below the root (only used when it is under the root)
AskedRel == RelativeTo(last.path, RootDir)

HasGitSegment(path) == \E i \in 1..Len(path) : path[i] = GIT

\* the rules of a spec that match a path string, by position
MatchingRules(spec, file) ==
  {i \in 1..Len(spec) : GitWildMatch(PatternOf(spec[i]), file)}

\* the last rule in file order that matches decides; no matching rule: visible
LastRuleIgnores(spec, file) ==
  LET m == MatchingRules(spec, file)
  IN  /\ m # {}
      /\ ~IsNegation(spec[CHOOSE i \in m : \A j \in m : j <= i])

STAR_LOG      == <<"*", ".", "l", "o", "g">>
NOT_IMPORTANT == <<"!">> \o IMPORTANT_LOG

\* C1: for a regular file under the root with no core-excluded segment and no
\* CLI patterns, is_path_ignored is true iff the last rule of the ignore file
\* that matches the file is not a negation; [*.log, !important.log] leaves
\* important.log visible and [!important.log, *.log] ignores it.
C1_LastRuleWinsForFiles ==
  (/\ Asked
   /\ IsFile(fs, last.path)
   /\ IsRelativeTo(last.path, RootDir)
   /\ ~HasGitSegment(last.path)
   /\ last.cli = <<>>)
  => /\ last.answer <=> LastRuleIgnores(last.spec, AsPosix(AskedRel))
     /\ (AskedRel = <<IMPORTANT_LOG>> /\ last.spec = <<STAR_LOG, NOT_IMPORTANT>>)
           => ~last.answer
     /\ (AskedRel = <<IMPORTANT_LOG>> /\ last.spec = <<NOT_IMPORTANT, STAR_LOG>>)
           => last.answer

C1_Witness ==
  /\ Asked
  /\ last.path = RootDir \o <<IMPORTANT_LOG>>
  /\ last.cli = <<>>
  /\ last.spec = <<STAR_LOG, NOT_IMPORTANT>>
  /\ ~last.answer

\* the rules `D/` and `!D/keep.txt` for a directory D given by its path below the root
DirRule(d)  == AsPosix(d) \o <<"/">>
KeepRule(d) == <<"!">> \o AsPosix(d) \o <<"/">> \o KEEP_TXT

\* the directories under the root
DirsUnderRoot ==
  {RelativeTo(p, RootDir) : p \in {q \in DOMAIN fs : IsDir(fs, q) /\ Len(q) > Len(RootDir)
                                                      /\ IsPrefix(RootDir, q)}}

\* what the claim says of one directory D when the spec is [D/, !D/keep.txt]
NegationRestores(d) ==
  (/\ Asked
   /\ last.cli = <<>>
   /\ last.spec = <<DirRule(d), KeepRule(d)>>
   /\ IsRelativeTo(last.path, RootDir))
  => /\ AskedRel = d \o <<KEEP_TXT>> => ~last.answer
     /\ AskedRel = d => last.answer
     /\ (IsPrefix(d, AskedRel) /\ IsFile(fs, last.path) /\ AskedRel # d \o <<KEEP_TXT>>)
          => last.answer

\* C2 as stated: for any directory D under the root, with rules D/ then
\* !D/keep.txt, D/keep.txt is visible, D is ignored and every other file
\* under D is ignored.
C2_Original == \A d \in DirsUnderRoot : NegationRestores(d)

\* C2 amended: the same for every directory D none of whose path segments is
\* a core-excluded name; under a core-excluded D everything stays ignored.
C2_NegationRestoresVisibility ==
  \A d \in DirsUnderRoot :
     IF HasGitSegment(d)
     THEN (Asked /\ IsPrefix(RootDir \o d, last.path)) => last.answer
     ELSE NegationRestores(d)

C2_Witness ==
  /\ Asked
  /\ last.cli = <<>>
  /\ last.spec = <<DirRule(<<NODE_MODULES, PKG>>), KeepRule(<<NODE_MODULES, PKG>>)>>
  /\ last.path = RootDir \o <<NODE_MODULES, PKG, KEEP_TXT>>
  /\ ~last.answer

\* the single rule of the spec without its trailing slash, as path segments
RuleBody(rule) == SelectSeq(Split(rule, "/"), LAMBDA x : x # <<>>)

IsDirRule(rule) == rule[Len(rule)] = "/"

\* an entry "of that name": a one-segment rule names an entry at any depth,
\* a rule with a slash inside names one path below the root
Named(rule, rel) ==
  IF Len(RuleBody(rule)) = 1 THEN Name(rel) = RuleBody(rule)[1] ELSE rel = RuleBody(rule)

BeneathNamedDir(rule, rel) ==
  \E k \in 1..(Len(rel) - 1) :
     Named(rule, SubSeq(rel, 1, k)) /\ IsDir(fs, RootDir \o SubSeq(rel, 1, k))

\* what the claim says when the spec is the single literal rule last.spec[1];
\* core is TRUE when paths with a core-excluded segment are left out of the
\* two "not ignored" cases
DirectoryOnlyRules(core) ==
  (/\ Asked
   /\ last.cli = <<>>
   /\ IsRelativeTo(last.path, RootDir)
   /\ Len(last.spec) = 1
   /\ ~IsNegation(last.spec[1])
   /\ ~Contains(last.spec[1], "*"))
  => LET rule == last.spec[1]
         stem == Name(RuleBody(rule))
         skip == core /\ HasGitSegment(last.path)
     IN  IF IsDirRule(rule)
         THEN /\ (Named(rule, AskedRel) /\ IsDir(fs, last.path)) => last.answer
              /\ BeneathNamedDir(rule, AskedRel) => last.answer
              /\ (Named(rule, AskedRel) /\ IsFile(fs, last.path)
                    /\ ~BeneathNamedDir(rule, AskedRel) /\ ~skip) => ~last.answer
              /\ (StartsWith(Name(AskedRel), stem) /\ Name(AskedRel) # stem
                    /\ ~BeneathNamedDir(rule, AskedRel) /\ ~skip) => ~last.answer
         ELSE Named(rule, AskedRel) => last.answer

\* C3 as stated: a rule ending in / ignores a directory of that name and all
\* beneath it, but not a regular file of the same name nor an entry whose
\* name only starts with it; a rule without the slash ignores a file or a
\* directory of exactly that name.
C3_Original == DirectoryOnlyRules(FALSE)

\* C3 amended: the two "not ignored" cases hold for paths with no
\* core-excluded segment.
C3_DirectoryOnlyRules == DirectoryOnlyRules(TRUE)

C3_Witness ==
  /\ Asked
  /\ last.cli = <<>>
  /\ last.spec = << BUILD \o <<"/">> >>
  /\ last.path = RootDir \o <<BUILD>>
  /\ IsFile(fs, last.path)
  /\ ~last.answer

\* C4: is_path_ignored is true for every path that is, or lies beneath, an
\* entry named .git, whatever the ignore spec and the CLI patterns, and also
\* outside the root.
C4_CoreExclusionUnconditional ==
  (Asked /\ HasGitSegment(last.path)) => last.answer

C4_Witness ==
  /\ Asked
  /\ last.path = OutsideDir \o <<GIT, CONFIG>>
  /\ \E i \in 1..Len(last.spec) : last.spec[i] = <<"!">> \o GIT \o <<"/">> \o CONFIG
  /\ last.answer

(***************************************************************************)
(* The tree command of the library: runs of generate_and_output_tree on    *)
(* one project, each run leaving its output file behind for the next       *)
(***************************************************************************)

\* the ignore files of the tree runs
TreeIgnoreFiles ==
  { NoIgnoreFile,
    [exists |-> TRUE, lines |-> <<>>],
    [exists |-> TRUE, lines |-> << STAR_LOG >>],
    [exists |-> TRUE, lines |-> << BUILD \o <<"/">> >>],
    [exists |-> TRUE, lines |-> << DirRule(<<BUILD>>), KeepRule(<<BUILD>>) >>],
    [exists |-> TRUE, lines |-> << DirRule(<<NODE_MODULES, PKG>>),
                                   KeepRule(<<NODE_MODULES, PKG>>) >>],
    [exists |-> TRUE, lines |-> << <<"!">> \o GIT >>] }

\* the directories whose listing fails
DeniedChoices(f) ==
  {{}} \cup {{d} : d \in {RootDir \o <<BUILD>>, RootDir \o <<NODE_MODULES, PKG>>}
                          \cap {p \in DOMAIN f : IsDir(f, p)}}

\* where the tree is written: a file in the root, a file outside it
OutputPaths == { RootDir \o <<TREE_TXT>>, OutsideDir \o <<TREE_TXT>> }

Init ==
  /\ \E f \in FileSystems, i \in TreeIgnoreFiles :
        /\ fs = WithIgnoreFile(f, i)
        /\ llmignore = i
  /\ denied \in DeniedChoices(fs)
  /\ listing = "ascending"
  /\ pyproject = [exists |-> FALSE]
  /\ content = <<>>
  /\ objects = <<>>
  /\ last = NoCall

\* generate_and_output_tree(root_dir, output_file_path, ignore_list) writing to a file
GenerateAndOutputTree(output_file_path, ignore_list) ==
  /\ output_file_path # <<>>
  /\ IsDir(fs, RootDir)
  /\ LET lines == tree_lines(fs, denied, RootDir, llmignore, output_file_path, ignore_list)
     IN  IF CanWrite(fs, output_file_path)
         THEN /\ fs' = WriteFile(fs, output_file_path)
              /\ last' = [NoCall EXCEPT !.op = "tree", !.cli = ignore_list,
                            !.spec = load_ignore_patterns(llmignore),
                            !.output = output_file_path, !.lines = lines,
                            !.walked = fs, !.den = denied]
         ELSE /\ fs' = fs
              /\ last' = [NoCall EXCEPT !.op = "tree", !.cli = ignore_list,
                            !.output = output_file_path, !.exit_code = 1]
  /\ UNCHANGED <<denied, llmignore, pyproject, content, objects, listing>>

\* generate_and_output_tree(root_dir, None, ignore_list) printing to the console
PrintTree(ignore_list) ==
  /\ IsDir(fs, RootDir)
  /\ last' = [NoCall EXCEPT !.op = "tree", !.cli = ignore_list,
                !.spec = load_ignore_patterns(llmignore),
                !.rich = rich_tree(fs, denied, RootDir, llmignore, ignore_list),
                !.walked = fs, !.den = denied]
  /\ UNCHANGED <<fs, denied, llmignore, pyproject, content, objects, listing>>

Next ==
  \/ \E output_file_path \in OutputPaths, ignore_list \in CliLists :
        GenerateAndOutputTree(output_file_path, ignore_list)
  \/ \E ignore_list \in CliLists : PrintTree(ignore_list)

Spec == Init /\ [][Next]_vars

(***************************************************************************)
(* Reading the rendered tree back: the entry each line shows               *)
(***************************************************************************)

IsUnit(tok) == tok \in {ELBOW, TEE, PIPE, BLANK}

\* the number of indentation and connector units a line starts with
Depth(line) == Cardinality({i \in 1..Len(line) : IsUnit(line[i])})

IsAnnotation(line) == \E i \in 1..Len(line) : line[i] = DENIED_OPEN

\* the name a line shows, without the slash that marks a directory
EntryName(line) ==
  LET text == SubSeq(line, Depth(line) + 1, Len(line))
  IN  IF text # <<>> /\ text[Len(text)] = "/" THEN SubSeq(text, 1, Len(text) - 1) ELSE text

\* the path below the root of the entry of line i: the name of the line under
\* the entry of the nearest earlier line that is one level up
RECURSIVE EntryPath(_, _)
EntryPath(lines, i) ==
  IF Depth(lines[i]) = 0 THEN <<>>
  ELSE LET up == {j \in 1..(i - 1) : Depth(lines[j]) = Depth(lines[i]) - 1}
           j  == CHOOSE x \in up : \A y \in up : y <= x
       IN  EntryPath(lines, j) \o << EntryName(lines[i]) >>

\* the entries a rendered tree lists, as paths below the root
ShownPaths(lines) ==
  {EntryPath(lines, i) : i \in {k \in 2..Len(lines) : ~IsAnnotation(lines[k])}}

TreeWritten == last.op = "tree" /\ last.exit_code = 0

\* the entries a Rich tree lists below the entry `at`
RECURSIVE ShownRich(_, _)
ShownRich(nodes, at) ==
  UNION { IF nodes[i].label = <<DENIED_RICH>> THEN {}
          ELSE LET path == at \o << SubSeq(nodes[i].label, 3, Len(nodes[i].label)) >>
               IN  {path} \cup ShownRich(nodes[i].children, path)
          : i \in 1..Len(nodes) }

\* the entries of the tree the last run rendered, written or printed
Shown == IF last.output = <<>> THEN ShownRich(last.rich, <<>>) ELSE ShownPaths(last.lines)

\* the ignore inputs of the last run, and its verdict on one path of the
\* file system it walked
RunCli == effective_cli_ignores(RootDir, last.output, last.cli)

Visible(rel) ==
  _should_show_path(last.walked, RootDir \o rel, RootDir, last.spec, RunCli,
                    DEFAULT_EXCLUDED_ITEMS_TOOL_SPECIFIC)

\* the paths below the root in the file system the last run walked
WalkedPaths ==
  {RelativeTo(p, RootDir) :
     p \in {q \in DOMAIN last.walked : Len(q) > Len(RootDir) /\ IsPrefix(RootDir, q)}}

WalkedDirs == {d \in WalkedPaths : IsDir(last.walked, RootDir \o d)}

\* C5 (as stated): whatever the ignore file and the CLI ignore list, no entry
\* named .git and no descendant of one appears in the tree.
C5_Original ==
  TreeWritten => \A p \in Shown : ~HasGitSegment(p)

\* the listing of every directory from the root down to the parent of d succeeds
ParentListed(d) ==
  \A k \in 0..(Len(d) - 1) : RootDir \o SubSeq(d, 1, k) \notin last.den

\* the paths below d that the walk of d reaches: no directory from d down to
\* their parent fails to list
ListedBelow(d) ==
  {q \in WalkedPaths :
     /\ Len(q) > Len(d)
     /\ IsPrefix(d, q)
     /\ \A k \in Len(d)..(Len(q) - 1) : RootDir \o SubSeq(q, 1, k) \notin last.den}

C7_Original ==
  (TreeWritten /\ ~llmignore.exists) =>
    \A p \in Shown :
       \A k \in 1..Len(p) :
          ~(/\ p[k] \in DEFAULT_EXCLUDED_ITEMS_TOOL_SPECIFIC
            /\ IsDir(last.walked, RootDir \o SubSeq(p, 1, k)))

\* C8 (as stated): whenever the tree is written to a file inside the root, no
\* line of the tree names that file, on every run of a sequence of runs.
C8_Original ==
  (TreeWritten /\ IsRelativeTo(last.output, RootDir)) =>
    RelativeTo(last.output, RootDir) \notin Shown

\* C9 (as stated): no entry whose name equals an entry of the CLI ignore list,
\* and no descendant of such an entry, appears in the tree.
C9_Original ==
  TreeWritten =>
    \A k \in 1..Len(last.cli) :
       \A p \in Shown : \A j \in 1..Len(p) : p[j] # last.cli[k]

(***************************************************************************)
(* utils/config_manager.py and the tree command of main.py                 *)
(***************************************************************************)

\* a TOML value with its Python type; NoneValue is Python's None
NoneValue   == [type |-> "none", val |-> <<>>]
ListOf(v)   == [type |-> "list", val |-> v]
StrOf(v)    == [type |-> "str", val |-> v]

DEFAULT_CONFIG_VALUES ==
  [default_output_filename_tree |-> NoneValue,
   default_output_filename_flatten |-> NoneValue,
   global_exclude_patterns |-> ListOf(<<>>)]

\* load_config(project_root): pp is the state of root/pyproject.toml, with the
\* keys of its [tool.contextcraft] table in pp.tool_config
load_config(pp) ==
  IF ~pp.exists \/ DOMAIN pp.tool_config = {} THEN DEFAULT_CONFIG_VALUES
  ELSE [key \in DOMAIN DEFAULT_CONFIG_VALUES |->
          IF key \notin DOMAIN pp.tool_config THEN DEFAULT_CONFIG_VALUES[key]
          ELSE LET default_value == DEFAULT_CONFIG_VALUES[key]
                   loaded_value  == pp.tool_config[key]
               IN  IF default_value.type = "list" /\ loaded_value.type # "list"
                   THEN default_value
                   ELSE IF default_value.type = "none" /\ loaded_value.type \notin {"none", "str"}
                        THEN NoneValue
                        ELSE loaded_value]

\* the parameters of generate_and_output_tree, and the keywords tree_command
\* calls it with
generate_and_output_tree_parameters == {"root_dir", "output_file_path", "ignore_list"}

tree_command_keywords ==
  {"root_dir", "output_file_path", "ignore_list", "config_global_excludes"}

\* the states of pyproject.toml
NoPyProject == [exists |-> FALSE, tool_config |-> <<>>]

PyProjects ==
  { NoPyProject,
    [exists |-> TRUE, tool_config |-> <<>>],
    [exists |-> TRUE,
     tool_config |-> [global_exclude_patterns |-> ListOf(<< STAR_LOG, BUILD \o <<"/">> >>)]],
    [exists |-> TRUE,
     tool_config |-> [global_exclude_patterns |-> StrOf(STAR_LOG)]],
    [exists |-> TRUE,
     tool_config |-> [global_exclude_patterns |-> ListOf(<< MAIN_PY, BUILD \o <<"/">> >>),
                      default_output_filename_flatten |-> StrOf(FLAT_TXT)]],
    [exists |-> TRUE,
     tool_config |-> [global_exclude_patterns |-> ListOf(<< STAR_LOG >>),
                      default_output_filename_tree |-> StrOf(TREE_TXT)]] }

\* --output: absent (<<>>), a file in the root, a file outside it
CommandOutputs == { <<>> } \cup OutputPaths

InitCommand ==
  /\ \E f \in FileSystems, i \in {NoIgnoreFile, [exists |-> TRUE, lines |-> << STAR_LOG >>]},
        pp \in PyProjects :
        /\ fs = IF pp.exists
                THEN WriteFile(WithIgnoreFile(f, i), RootDir \o <<PYPROJECT_TOML>>)
                ELSE WithIgnoreFile(f, i)
        /\ llmignore = i
        /\ pyproject = pp
        /\ content = <<>>
  /\ objects = <<>>
  /\ denied = {}
  /\ listing = "ascending"
  /\ last = NoCall

\* tree_command(root_dir, output_file, ignore)
TreeCommand(output_file, ignore) ==
  LET config == load_config(pyproject)
      actual_output_path ==
        IF output_file # <<>> THEN output_file
        ELSE IF config.default_output_filename_tree.type = "str"
                  /\ config.default_output_filename_tree.val # <<>>
             THEN RootDir \o << config.default_output_filename_tree.val >>
             ELSE <<>>
      cli_ignore_list == ignore
      cfg_global_excludes ==
        IF config.global_exclude_patterns.type = "list"
        THEN config.global_exclude_patterns.val ELSE <<>>
  IN
  /\ IsDir(fs, RootDir)
  /\ IF tree_command_keywords \subseteq generate_and_output_tree_parameters
     THEN \* the call is accepted: the run of generate_and_output_tree
          IF actual_output_path # <<>> /\ CanWrite(fs, actual_output_path)
          THEN /\ fs' = WriteFile(fs, actual_output_path)
               /\ last' = [NoCall EXCEPT !.op = "tree_command", !.cli = cli_ignore_list,
                             !.spec = load_ignore_patterns(llmignore),
                             !.output = actual_output_path,
                             !.lines = tree_lines(fs, denied, RootDir, llmignore,
                                                  actual_output_path, cli_ignore_list),
                             !.walked = fs, !.den = denied]
          ELSE /\ fs' = fs
               /\ last' = [NoCall EXCEPT !.op = "tree_command", !.cli = cli_ignore_list,
                             !.spec = load_ignore_patterns(llmignore),
                             !.rich = rich_tree(fs, denied, RootDir, llmignore,
                                                cli_ignore_list),
                             !.exit_code = IF actual_output_path = <<>> THEN 0 ELSE 1,
                             !.walked = fs, !.den = denied]
     ELSE \* TypeError (unexpected keyword argument), caught by `except Exception`
          /\ fs' = fs
          /\ last' = [NoCall EXCEPT !.op = "tree_command", !.cli = cli_ignore_list,
                        !.output = actual_output_path, !.exit_code = 1]
  /\ UNCHANGED <<denied, llmignore, pyproject, content, objects, listing>>

\* the global_exclude_patterns the configuration layer hands to the command
ConfigExcludes ==
  IF load_config(pyproject).global_exclude_patterns.type = "list"
  THEN load_config(pyproject).global_exclude_patterns.val ELSE <<>>

\* C10 (as stated): with global_exclude_patterns in pyproject.toml the tree
\* command exits with code 0 and the written tree omits every file matching
\* one of the patterns and every directory matching a `dir/` pattern with its
\* contents.
C10_Original ==
  (last.op = "tree_command" /\ last.output # <<>> /\ ConfigExcludes # <<>>) =>
    /\ last.exit_code = 0
    /\ IsFile(fs, last.output)
    /\ \A p \in ShownPaths(last.lines) :
          \A k \in 1..Len(ConfigExcludes) :
             /\ ~PathMatch(<<Name(p)>>, ConfigExcludes[k])
             /\ \A j \in 1..Len(p) : p[j] \o <<"/">> # ConfigExcludes[k]

(***************************************************************************)
(* Runs of the library: flatten_code_logic and generate_and_output_tree    *)
(* called one after the other by one caller, on any root                   *)
(***************************************************************************)

MISSING  == <<"m", "i", "s", "s", "i", "n", "g">>
STAR_PY  == <<"*", ".", "p", "y">>
DOT_TXT_UPPER == <<".", "T", "X", "T">>

\* the roots of the runs: the project, a regular file, a path that does not exist
Roots == { RootDir, RootDir \o <<BUILDX>>, RootDir \o <<MISSING>> }

\* where flatten writes: nowhere (the console), a file in the root, one outside
FlattenOutputs == { <<>>, RootDir \o <<FLAT_TXT>>, OutsideDir \o <<FLAT_TXT>> }

\* where the tree is written: nowhere (the console), a file in the root
RunOutputs == { <<>>, RootDir \o <<TREE_TXT>> }

\* the ignore files of the runs
RunIgnoreFiles ==
  { NoIgnoreFile,
    [exists |-> TRUE, lines |-> << STAR_LOG >>],
    [exists |-> TRUE, lines |-> << DirRule(<<BUILD>>), KeepRule(<<BUILD>>) >>],
    [exists |-> TRUE, lines |-> << DirRule(<<NODE_MODULES>>),
                                   KeepRule(<<NODE_MODULES, PKG>>) >>],
    [exists |-> TRUE, lines |-> << DirRule(<<GIT>>), KeepRule(<<GIT>>) >>] }

\* the offsets of the first NUL byte of a file, around the size of the prefix read
NulOffsets == { 1, READ_SIZE, READ_SIZE + 1 }

\* the files that are not plain text: none, or one file with a NUL byte, or one
\* file that cannot be read as text
Contents ==
  { <<>> }
    \cup { [p \in {RootDir \o <<SRC, MAIN_PY>>} |-> [nul |-> n, readable |-> TRUE]] :
             n \in NulOffsets }
    \cup { [p \in {RootDir \o <<BUILD, KEEP_TXT>>} |-> [nul |-> 1, readable |-> TRUE]],
           [p \in {RootDir \o <<SRC, MAIN_PY>>} |-> [nul |-> 0, readable |-> FALSE]] }

\* the lists the caller holds and passes to every run: --ignore / --exclude
\* and --include
CallerLists ==
  { [exclude |-> <<>>, include |-> <<>>],
    [exclude |-> << SRC >>, include |-> <<>>],
    [exclude |-> <<>>, include |-> << STAR_PY, DOT_TXT_UPPER >>],
    [exclude |-> << SRC, DirRule(<<BUILD>>) >>, include |-> << STAR_LOG, KEEP_TXT >>] }

\* the objects that outlive a run: the module-level collections and the lists
\* of the caller
Objects(lists) ==
  [CORE_SYSTEM_EXCLUSIONS |-> CORE_SYSTEM_EXCLUSIONS,
   DEFAULT_EXCLUDED_ITEMS_TOOL_SPECIFIC |-> DEFAULT_EXCLUDED_ITEMS_TOOL_SPECIFIC,
   DEFAULT_EXCLUDED_ITEMS_GENERAL_FOR_WALK_FALLBACK |->
     DEFAULT_EXCLUDED_ITEMS_GENERAL_FOR_WALK_FALLBACK,
   DEFAULT_INCLUDE_PATTERNS |-> DEFAULT_INCLUDE_PATTERNS,
   ignore_list |-> lists.exclude,
   exclude_patterns |-> lists.exclude,
   include_patterns |-> lists.include]

\* list(exclude_patterns), list(ignore_list): the object the name
\* effective_cli_ignores is bound to, given the object passed by the caller
ListCopy_Alias(passed) == passed

ListCopy(passed) == "effective_cli_ignores"

\* the objects after effective_cli_ignores was built: the copy, the append of
\* the name of the output file, and the end of the call that drops the locals
ObjectsAfterRun(objs, passed, root_dir, output_file_path) ==
  LET WithLocal(bound) ==
        [o \in DOMAIN objs \cup {bound} |->
           IF o = bound
           THEN effective_cli_ignores(root_dir, output_file_path, objs[passed])
           ELSE objs[o]]
      Kept(after) == [o \in DOMAIN objs |-> after[o]]
  IN  Kept(WithLocal(ListCopy(passed)))

\* load_ignore_patterns(root): the file root/.llmignore
IgnoreFileOf(root) == IF root = RootDir THEN llmignore ELSE NoIgnoreFile

\* the projects the runs start from: every ignore file with every list of the
\* caller; files that are not plain text; a directory that cannot be listed
RunScenarios ==
  (RunIgnoreFiles \X {{}} \X {<<>>} \X CallerLists)
    \cup ({NoIgnoreFile, [exists |-> TRUE, lines |-> << DirRule(<<BUILD>>), KeepRule(<<BUILD>>) >>]}
            \X {{}} \X Contents \X {[exclude |-> <<>>, include |-> <<>>]})
    \cup ({NoIgnoreFile, [exists |-> TRUE, lines |-> << DirRule(<<BUILD>>), KeepRule(<<BUILD>>) >>]}
            \X {{RootDir \o <<BUILD>>}} \X {<<>>} \X {[exclude |-> <<>>, include |-> <<>>]})

InitRuns ==
  /\ \E sc \in RunScenarios :
        /\ fs = WithIgnoreFile(FsProject, sc[1])
        /\ llmignore = sc[1]
        /\ denied = sc[2]
        /\ listing = "ascending"
        /\ content = sc[3]
        /\ objects = Objects(sc[4])
  /\ pyproject = NoPyProject
  /\ last = NoCall

RootIsDir_Exists(f, root_dir) == Exists(f, root_dir)

\* root_dir.is_dir(), the first statement of both entry points
RootIsDir(f, root_dir) == IsDir(f, root_dir)

\* flatten_code_logic(root_dir_path, output_file_path, include_patterns, exclude_patterns)
FlattenCodeLogic(root_dir_path, output_file_path, include_patterns, exclude_patterns, objects_after) ==
  IF ~RootIsDir(fs, root_dir_path)
  THEN /\ last' = [NoCall EXCEPT !.op = "flatten", !.root = root_dir_path,
                     !.cli = exclude_patterns, !.include = include_patterns,
                     !.output = output_file_path, !.exit_code = 1]
       /\ UNCHANGED <<fs, denied, llmignore, pyproject, content, objects, listing>>
  ELSE /\ IF output_file_path # <<>> /\ ~CanWrite(fs, output_file_path)
          THEN /\ fs' = fs
               /\ last' = [NoCall EXCEPT !.op = "flatten", !.root = root_dir_path,
                             !.cli = exclude_patterns, !.include = include_patterns,
                             !.spec = load_ignore_patterns(IgnoreFileOf(root_dir_path)),
                             !.output = output_file_path, !.exit_code = 1,
                             !.walked = fs, !.den = denied, !.cont = content]
          ELSE LET Done(walk) ==
                     last' = [NoCall EXCEPT !.op = "flatten", !.root = root_dir_path,
                                !.cli = exclude_patterns, !.include = include_patterns,
                                !.spec = load_ignore_patterns(IgnoreFileOf(root_dir_path)),
                                !.output = output_file_path,
                                !.flat = walk.flat, !.reached = walk.reached,
                                !.walked = fs, !.den = denied, !.cont = content]
               IN  /\ fs' = IF output_file_path # <<>> THEN WriteFile(fs, output_file_path) ELSE fs
                   /\ Done(flatten_walk(fs, denied, content, root_dir_path,
                             IgnoreFileOf(root_dir_path), output_file_path,
                             include_patterns, exclude_patterns))
       /\ objects' = objects_after
       /\ UNCHANGED <<denied, llmignore, pyproject, content, listing>>

\* the caller runs flatten_code_logic with its lists
CallerFlattens(root_dir_path, output_file_path) ==
  FlattenCodeLogic(root_dir_path, output_file_path,
                   objects.include_patterns, objects.exclude_patterns,
                   ObjectsAfterRun(objects, "exclude_patterns", root_dir_path,
                                   output_file_path))

\* generate_and_output_tree(root_dir, output_file_path, ignore_list), run by
\* the caller with its list
CallerTrees(root_dir, output_file_path) ==
  IF ~RootIsDir(fs, root_dir)
  THEN /\ last' = [NoCall EXCEPT !.op = "tree", !.root = root_dir,
                     !.cli = objects.ignore_list, !.output = output_file_path,
                     !.exit_code = 1]
       /\ UNCHANGED <<fs, denied, llmignore, pyproject, content, objects, listing>>
  ELSE /\ IF output_file_path = <<>>
          THEN /\ fs' = fs
               /\ last' = [NoCall EXCEPT !.op = "tree", !.root = root_dir,
                             !.cli = objects.ignore_list,
                             !.spec = load_ignore_patterns(IgnoreFileOf(root_dir)),
                             !.rich = rich_tree(fs, denied, root_dir, IgnoreFileOf(root_dir),
                                                objects.ignore_list),
                             !.walked = fs, !.den = denied]
          ELSE IF CanWrite(fs, output_file_path)
          THEN /\ fs' = WriteFile(fs, output_file_path)
               /\ last' = [NoCall EXCEPT !.op = "tree", !.root = root_dir,
                             !.cli = objects.ignore_list,
                             !.spec = load_ignore_patterns(IgnoreFileOf(root_dir)),
                             !.output = output_file_path,
                             !.lines = tree_lines(fs, denied, root_dir, IgnoreFileOf(root_dir),
                                                  output_file_path, objects.ignore_list),
                             !.walked = fs, !.den = denied]
          ELSE /\ fs' = fs
               /\ last' = [NoCall EXCEPT !.op = "tree", !.root = root_dir,
                             !.cli = objects.ignore_list,
                             !.spec = load_ignore_patterns(IgnoreFileOf(root_dir)),
                             !.output = output_file_path, !.exit_code = 1,
                             !.walked = fs, !.den = denied]
       /\ objects' = ObjectsAfterRun(objects, "ignore_list", root_dir, output_file_path)
       /\ UNCHANGED <<denied, llmignore, pyproject, content, listing>>

NextRuns ==
  \/ \E root_dir_path \in Roots, output_file_path \in FlattenOutputs :
        CallerFlattens(root_dir_path, output_file_path)
  \/ \E root_dir \in Roots, output_file_path \in RunOutputs :
        CallerTrees(root_dir, output_file_path)

SpecRuns == InitRuns /\ [][NextRuns]_vars

(***************************************************************************)
(* The commands of main.py: tree_command and flatten_command under the     *)
(* configuration of pyproject.toml                                         *)
(***************************************************************************)

\* flatten_command(root_dir, output_file, include, exclude): the configured
\* global_exclude_patterns are read into cfg_global_excludes and are not among
\* the arguments of the call of flatten_code_logic
FlattenCommand(output_file, include, exclude) ==
  LET config == load_config(pyproject)
      actual_output_path ==
        IF output_file # <<>> THEN output_file
        ELSE IF config.default_output_filename_flatten.type = "str"
                  /\ config.default_output_filename_flatten.val # <<>>
             THEN RootDir \o << config.default_output_filename_flatten.val >>
             ELSE <<>>
      actual_include_patterns == include
      actual_exclude_patterns == exclude
  IN  FlattenCodeLogic(RootDir, actual_output_path, actual_include_patterns,
                       actual_exclude_patterns, objects)

NextCommand ==
  \/ \E output_file \in CommandOutputs, ignore \in CliLists : TreeCommand(output_file, ignore)
  \/ \E output_file \in {<<>>, RootDir \o <<FLAT_TXT>>}, exclude \in {<<>>, << SRC >>} :
        FlattenCommand(output_file, <<>>, exclude)

SpecCommand == InitCommand /\ [][NextCommand]_vars

\* the paths of the files that have an entry in the flattened output
Emitted == {last.flat.parts[i].path : i \in 1..Len(last.flat.parts)}

\* C11 (as stated): when pyproject.toml supplies global_exclude_patterns, the
\* output of the flatten command holds no entry for a file whose name equals
\* one of the patterns nor for a file under a directory named by a `dir/`
\* pattern.
C11_Original ==
  (last.op = "flatten" /\ last.exit_code = 0 /\ ConfigExcludes # <<>>) =>
    \A p \in Emitted :
       \A k \in 1..Len(ConfigExcludes) :
          /\ Name(p) # ConfigExcludes[k]
          /\ \A j \in 1..(Len(p) - 1) : p[j] \o <<"/">> # ConfigExcludes[k]

(***************************************************************************)
(* The claims about flatten_code_logic                                     *)
(***************************************************************************)

\* a run of flatten_code_logic that walked its root and delivered its output
Flattened == last.op = "flatten" /\ last.exit_code = 0

\* the CLI ignore list the run worked with
RunCliIgnores == flatten_effective_cli_ignores(last.root, last.output, last.cli)

\* is_path_ignored is false for the file in the run
VisibleInRun(file_path) ==
  ~is_path_ignored(last.walked, file_path, last.root, last.spec, RunCliIgnores)

HasEntry(file_path) == RelativeTo(file_path, last.root) \in Emitted

\* C12 (as stated): every regular file the walk reaches has an entry in the
\* output iff is_path_ignored is false for it and it matches at least one
\* active include pattern.
C12_Original ==
  Flattened =>
    \A i \in 1..Len(last.reached) :
       HasEntry(last.reached[i]) <=>
         /\ VisibleInRun(last.reached[i])
         /\ _file_matches_include_criteria(last.reached[i], last.include)

\* C12 (amended): every regular file the walk reaches has an entry in the
\* output iff is_path_ignored is false for it, its name matches none of the
\* built-in fallback exclusions when no ignore spec is loaded, and it matches
\* at least one active include pattern.
C12_PerFileDecision ==
  Flattened =>
    \A i \in 1..Len(last.reached) :
       HasEntry(last.reached[i]) <=>
         /\ VisibleInRun(last.reached[i])
         /\ ~(last.spec = None /\ FallbackMatches(Name(last.reached[i])))
         /\ _file_matches_include_criteria(last.reached[i], last.include)

C12_Witness ==
  /\ Flattened
  /\ last.include = << STAR_PY, DOT_TXT_UPPER >>
  /\ HasEntry(RootDir \o <<SRC, MAIN_PY>>)
  /\ \E i \in 1..Len(last.reached) :
        /\ last.reached[i] = RootDir \o <<BUILDX>>
        /\ VisibleInRun(last.reached[i])
        /\ ~HasEntry(last.reached[i])

\* the regular files and the directories below the root of the run
FilesBelowRoot ==
  {q \in Descendants(last.walked, last.root) : IsFile(last.walked, q)}

DirsBelowRoot ==
  {q \in Descendants(last.walked, last.root) : IsDir(last.walked, q)}

\* the directories strictly between the root and a path
DirsAbove(path) == {SubSeq(path, 1, k) : k \in (Len(last.root) + 1)..(Len(path) - 1)}

\* the last rule of the spec that matches the file is a negation
NegationUnignores(file_path) ==
  LET Last(m) == m # {} /\ IsNegation(last.spec[CHOOSE i \in m : \A j \in m : j <= i])
  IN  Last(MatchingRules(last.spec, AsPosix(RelativeTo(file_path, last.root))))

InIgnoredDirectory(file_path) == \E d \in DirsAbove(file_path) : ~VisibleInRun(d)

EmittedWithContent(file_path) ==
  \E i \in 1..Len(last.flat.parts) :
     /\ last.flat.parts[i].kind = "content"
     /\ last.flat.parts[i].path = RelativeTo(file_path, last.root)

\* the directory pruning logic deletes the directory from the walk
PrunedInRun(dir_path) ==
  PruneDir(last.walked, last.den, dir_path, last.root, last.spec, RunCliIgnores)

\* C13 (as stated): with an ignore spec loaded, a file that a negation rule
\* un-ignores inside an ignored directory and that matches an include pattern
\* is emitted with its content, the files that stay ignored are not emitted,
\* and a directory is pruned only if it is ignored and none of its descendant
\* files is visible.
C13_Original ==
  (Flattened /\ last.spec # None) =>
    /\ \A q \in FilesBelowRoot :
          (/\ NegationUnignores(q)
           /\ InIgnoredDirectory(q)
           /\ _file_matches_include_criteria(q, last.include))
            => EmittedWithContent(q)
    /\ \A q \in FilesBelowRoot : ~VisibleInRun(q) => ~HasEntry(q)
    /\ \A d \in DirsBelowRoot :
          PrunedInRun(d) =>
            /\ ~VisibleInRun(d)
            /\ \A q \in FilesBelowRoot : IsPrefix(d, q) => ~VisibleInRun(q)

\* every directory from the root down to the path could be listed
Listable(path) == \A k \in Len(last.root)..(Len(path) - 1) : SubSeq(path, 1, k) \notin last.den

\* C13 (amended): with an ignore spec loaded, a file inside an ignored
\* directory for which is_path_ignored is false (the negation is not overruled
\* by a core exclusion or a CLI pattern), which matches an include pattern
\* and lies below directories that can all be listed, has an entry in the
\* output: its content, or its marker when it is binary or unreadable; the
\* files that stay ignored have no entry; and a directory that can be listed
\* is pruned only if it is ignored and none of the files below it that the
\* walk can list is visible.
C13_RescuedFileNotPruned ==
  (Flattened /\ last.spec # None) =>
    /\ \A q \in FilesBelowRoot :
          (/\ VisibleInRun(q)
           /\ InIgnoredDirectory(q)
           /\ Listable(q)
           /\ _file_matches_include_criteria(q, last.include))
            => /\ HasEntry(q)
               /\ (ContentOf(last.cont, q) = TextFile) => EmittedWithContent(q)
    /\ \A q \in FilesBelowRoot : ~VisibleInRun(q) => ~HasEntry(q)
    /\ \A d \in DirsBelowRoot :
          PrunedInRun(d) =>
            /\ ~VisibleInRun(d)
            /\ \A q \in FilesBelowRoot :
                  (IsPrefix(d, q) /\ Listable(q)) => ~VisibleInRun(q)

\* the rescue two levels below the ignored directory
C13_Witness ==
  /\ Flattened
  /\ last.spec = << DirRule(<<NODE_MODULES>>), KeepRule(<<NODE_MODULES, PKG>>) >>
  /\ ~VisibleInRun(RootDir \o <<NODE_MODULES>>)
  /\ ~VisibleInRun(RootDir \o <<NODE_MODULES, PKG>>)
  /\ EmittedWithContent(RootDir \o <<NODE_MODULES, PKG, KEEP_TXT>>)
  /\ ~HasEntry(RootDir \o <<NODE_MODULES, PKG, INDEX_JS>>)

\* the files of the run that pass the exclusions and the include criteria
SelectedFiles ==
  {q \in {last.reached[i] : i \in 1..Len(last.reached)} :
     /\ VisibleInRun(q)
     /\ ~(last.spec = None /\ FallbackMatches(Name(q)))
     /\ _file_matches_include_criteria(q, last.include)}

\* the file can be opened and has a NUL byte among its first 1024 bytes
BinaryInPrefix(file_path) ==
  /\ ContentOf(last.cont, file_path).readable
  /\ ContentOf(last.cont, file_path).nul \in 1..READ_SIZE

PartsOf(kind, file_path) ==
  {i \in 1..Len(last.flat.parts) :
     /\ last.flat.parts[i].kind = kind
     /\ last.flat.parts[i].path = RelativeTo(file_path, last.root)}

PartsOfKind(kind) == {i \in 1..Len(last.flat.parts) : last.flat.parts[i].kind = kind}

\* C14: every file selected for emission whose first 1024 bytes contain a NUL
\* byte gets exactly one skip marker and neither its file marker nor its
\* content; each such file adds exactly one to the binary-skip counter and
\* nothing to the processed-file counter, which counts the files emitted with
\* their content; the walk goes on: every other selected file that can be
\* read is emitted with its content.
C14_BinarySkip ==
  Flattened =>
    /\ \A q \in SelectedFiles :
          BinaryInPrefix(q) =>
            /\ Cardinality(PartsOf("skipped", q)) = 1
            /\ PartsOf("content", q) = {}
            /\ PartsOf("file", q) = {}
    /\ last.flat.files_skipped_binary_count
         = Cardinality({q \in SelectedFiles : BinaryInPrefix(q)})
    /\ last.flat.files_skipped_binary_count = Cardinality(PartsOfKind("skipped"))
    /\ last.flat.files_processed_count = Cardinality(PartsOfKind("content"))
    /\ \A q \in SelectedFiles :
          (ContentOf(last.cont, q).readable /\ ~BinaryInPrefix(q))
            => Cardinality(PartsOf("content", q)) = 1

\* a NUL byte at offset 1024 of a rescued file: the marker, the counter at
\* one, and the files after it in the walk emitted
C14_Witness ==
  /\ Flattened
  /\ ContentOf(last.cont, RootDir \o <<SRC, MAIN_PY>>).nul = READ_SIZE
  /\ RootDir \o <<SRC, MAIN_PY>> \in SelectedFiles
  /\ Cardinality(PartsOf("skipped", RootDir \o <<SRC, MAIN_PY>>)) = 1
  /\ last.flat.files_skipped_binary_count = 1
  /\ last.flat.files_processed_count >= 1

\* the walk continues after a binary file: build/keep.txt is skipped and
\* build/other.txt and src/main.py, which follow it, are handled
C14_WitnessContinues ==
  /\ Flattened
  /\ BinaryInPrefix(RootDir \o <<BUILD, KEEP_TXT>>)
  /\ Cardinality(PartsOf("skipped", RootDir \o <<BUILD, KEEP_TXT>>)) = 1
  /\ EmittedWithContent(RootDir \o <<SRC, MAIN_PY>>)

(***************************************************************************)
(* The claims about CLI patterns in the resolver (SpecResolver)            *)
(***************************************************************************)

\* C15 (as stated): with no ignore spec and the single CLI pattern `dir/*`,
\* is_path_ignored is true for every path beneath dir, not only for its
\* direct children.
C15_Original ==
  (/\ Asked
   /\ last.spec = None
   /\ last.cli = << NODE_MODULES_STAR >>
   /\ IsPrefix(RootDir \o <<NODE_MODULES>>, last.path)
   /\ last.path # RootDir \o <<NODE_MODULES>>)
    => last.answer
\* C16: if the path matches one of the CLI ignore patterns, is_path_ignored is
\* true whatever the spec says, a last matching rule that is a negation
\* included; and a path ignored under some of the CLI patterns (or none) is
\* ignored under all of them.
C16_CliNotNegatable ==
  Asked =>
    /\ (\E k \in 1..Len(last.cli) :
           CliPatternIgnores(fs, last.path, RootDir, last.cli[k])) => last.answer
    /\ \A K \in SUBSET (1..Len(last.cli)) :
          (\/ CoreExcluded(last.path)
           \/ SpecIgnores(fs, last.path, RootDir, last.spec)
           \/ \E k \in K : CliPatternIgnores(fs, last.path, RootDir, last.cli[k]))
            => last.answer

\* important.log, un-ignored by the last rule of the spec, ignored by `*.log`
\* of the CLI
C16_Witness ==
  /\ Asked
  /\ last.spec = << STAR_LOG, NOT_IMPORTANT >>
  /\ last.path = RootDir \o <<IMPORTANT_LOG>>
  /\ ~LastRuleIgnores(last.spec, IMPORTANT_LOG)
  /\ ~SpecIgnores(fs, last.path, RootDir, last.spec)
  /\ \E k \in 1..Len(last.cli) : last.cli[k] = STAR_LOG
  /\ last.answer

(***************************************************************************)
(* The claims about the runs of the library (SpecRuns)                     *)
(***************************************************************************)

\* C17: a call of flatten_code_logic or generate_and_output_tree on a root
\* that does not exist or is not a directory ends with exit code 1, reads no
\* ignore file, walks nothing, produces no output and leaves every file as
\* it was.
C17_InvalidRootAborts ==
  [][ (/\ last'.op \in {"flatten", "tree"}
       /\ (last'.root \notin DOMAIN fs \/ fs[last'.root] # "dir"))
        => /\ last'.exit_code = 1
           /\ fs' = fs
           /\ content' = content
           /\ last'.spec = NoCall.spec
           /\ last'.walked = NoCall.walked
           /\ last'.reached = <<>>
           /\ last'.flat = NoParts
           /\ last'.lines = <<>>
           /\ last'.rich = <<>> ]_vars

\* flatten on a root that is a regular file, with an output file asked for
C17_Witness ==
  /\ last.op = "flatten"
  /\ last.root = RootDir \o <<BUILDX>>
  /\ IsFile(fs, last.root)
  /\ last.output = RootDir \o <<FLAT_TXT>>
  /\ last.exit_code = 1
  /\ ~Exists(fs, last.output)

(***************************************************************************)
(* The claim about listing failures in the tree (Spec)                     *)
(***************************************************************************)

\* a written tree of a run in which the listing of one directory failed; the
\* directory, as a path below the root
FailedDirs == {RelativeTo(d, RootDir) : d \in last.den}

\* the tree the same run writes when no listing fails
LinesWithoutFailure ==
  tree_lines(last.walked, {}, RootDir, llmignore, last.output, last.cli)

\* the lines of a tree that are not below d
RECURSIVE LinesOutside(_, _, _)
LinesOutside(lines, d, i) ==
  IF i > Len(lines) THEN <<>>
  ELSE (IF i > 1 /\ Len(EntryPath(lines, i)) > Len(d) /\ IsPrefix(d, EntryPath(lines, i))
        THEN <<>> ELSE << lines[i] >>)
       \o LinesOutside(lines, d, i + 1)

\* the position of the line of the entry d
LineOf(lines, d) ==
  {i \in 2..Len(lines) : ~IsAnnotation(lines[i]) /\ EntryPath(lines, i) = d}

\* d is rendered once, with one annotation line as its only child
AnnotatedOnly(lines, d) ==
  /\ Cardinality(LineOf(lines, d)) = 1
  /\ \A i \in LineOf(lines, d) :
        /\ i < Len(lines)
        /\ IsAnnotation(lines[i + 1])
        /\ Depth(lines[i + 1]) = Depth(lines[i]) + 1
        /\ (i + 2 <= Len(lines)) => Depth(lines[i + 2]) <= Depth(lines[i])

AncestorsOrSelf(d) == {SubSeq(d, 1, k) : k \in 1..Len(d)}

Below(d) == {q \in WalkedPaths : Len(q) > Len(d) /\ IsPrefix(d, q)}

\* C18 (as stated): when the listing of a subdirectory fails the walk does not
\* abort, the subdirectory is rendered with a single annotation as its only
\* child, none of its contents is listed, and the rest of the tree is
\* rendered exactly as if the failure had not happened.
C18_Original ==
  (last.op = "tree" /\ last.output # <<>> /\ CanWrite(last.walked, last.output)) =>
    \A d \in FailedDirs :
       /\ last.exit_code = 0
       /\ AnnotatedOnly(last.lines, d)
       /\ Below(d) \cap ShownPaths(last.lines) = {}
       /\ LinesOutside(last.lines, d, 1) = LinesOutside(LinesWithoutFailure, d, 1)

\* C18 (amended): when the listing of a subdirectory fails the walk does not
\* abort, the subdirectory is rendered with a single annotation as its only
\* child and none of its contents is listed.  If the subdirectory is shown in
\* the tree without the failure, the rest of the tree is rendered exactly as
\* if the failure had not happened; if it is hidden without the failure, it
\* and its ancestors are shown all the same, and apart from them the same
\* entries are shown.
C18_FailureContainedWritten ==
  (last.op = "tree" /\ last.output # <<>> /\ CanWrite(last.walked, last.output)) =>
    \A d \in FailedDirs :
       /\ last.exit_code = 0
       /\ AnnotatedOnly(last.lines, d)
       /\ Below(d) \cap ShownPaths(last.lines) = {}
       /\ d \in ShownPaths(LinesWithoutFailure)
            => LinesOutside(last.lines, d, 1) = LinesOutside(LinesWithoutFailure, d, 1)
       /\ ShownPaths(last.lines) \ AncestorsOrSelf(d)
            = (ShownPaths(LinesWithoutFailure) \ AncestorsOrSelf(d)) \ Below(d)

\* C18 (amended), for the tree printed to the console: the subdirectory is
\* shown, none of its contents is, and apart from it and its ancestors the
\* entries shown are those shown without the failure.
C18_FailureContainedRich ==
  (last.op = "tree" /\ last.output = <<>> /\ last.exit_code = 0) =>
    \A d \in FailedDirs :
       /\ d \in Shown
       /\ Below(d) \cap Shown = {}
       /\ Shown \ AncestorsOrSelf(d)
            = (ShownRich(rich_tree(last.walked, {}, RootDir, llmignore, last.cli), <<>>)
                 \ AncestorsOrSelf(d)) \ Below(d)

\* C18 (amended): a listing failure is contained to its subtree, in the
\* written tree and in the printed one, as the two statements above say.
C18_FailureContained == C18_FailureContainedWritten /\ C18_FailureContainedRich

\* build/ cannot be listed; without the failure it is shown with keep.txt
C18_Witness ==
  /\ TreeWritten
  /\ last.output # <<>>
  /\ last.den = {RootDir \o <<BUILD>>}
  /\ AnnotatedOnly(last.lines, <<BUILD>>)
  /\ <<BUILD, KEEP_TXT>> \in ShownPaths(LinesWithoutFailure)
  /\ <<BUILD, KEEP_TXT>> \notin ShownPaths(last.lines)
  /\ <<SRC, MAIN_PY>> \in ShownPaths(last.lines)

(***************************************************************************)
(* The loader of the ignore file: one call of load_ignore_patterns on an   *)
(* ignore file written from lines that need cleaning                       *)
(***************************************************************************)

\* the lines of the ignore files the loader is run on
LoaderLines ==
  { <<>>,
    <<" ", " ">>,
    <<"#", " ", "c">>,
    <<" ", "#", " ", "c">>,
    <<"!">>,
    <<" ", "!", " ", "#", " ", "c">>,
    STAR_LOG,
    <<" ">> \o DirRule(<<BUILD>>) \o <<" ", "#", " ", "c">>,
    <<"!", " ">> \o IMPORTANT_LOG \o <<" ">>,
    <<"!">> \o IMPORTANT_LOG \o <<"#", "c">>,
    <<BOM>> \o STAR_LOG,
    <<BOM, "#", " ", "c">> }

\* the states of .llmignore: absent, written from the lines, and written but
\* failing to be read or parsed
LoaderFiles ==
  {NoIgnoreFile}
    \cup {[exists |-> TRUE, lines |-> l] : l \in SeqsUpTo(LoaderLines, MaxRules)}
    \cup {[exists |-> TRUE, lines |-> l, raises |-> TRUE] :
            l \in {<<>>, << STAR_LOG >>, << STAR_LOG, <<"!">> \o IMPORTANT_LOG >>}}

InitLoader ==
  /\ \E i \in LoaderFiles :
        /\ fs = WithIgnoreFile(FsFlat, i)
        /\ llmignore = i
  /\ denied = {}
  /\ listing = "ascending"
  /\ pyproject = [exists |-> FALSE]
  /\ content = <<>>
  /\ objects = <<>>
  /\ last = NoCall

\* load_ignore_patterns(root_dir)
LoadIgnorePatterns ==
  /\ last.op = "none"
  /\ last' = [NoCall EXCEPT !.op = "load_ignore_patterns", !.root = RootDir,
                !.spec = load_ignore_patterns(llmignore)]
  /\ UNCHANGED <<fs, denied, llmignore, pyproject, content, objects, listing>>

NextLoader == LoadIgnorePatterns

SpecLoader == InitLoader /\ [][NextLoader]_vars

\* what a line contributes after cleaning: the text before the first `#`
\* without the white space around it, a negation without the white space
\* after its `!`
BeforeHash(line) ==
  IF \E i \in 1..Len(line) : line[i] = "#"
  THEN SubSeq(line, 1, (CHOOSE i \in 1..Len(line) :
                          line[i] = "#" /\ \A j \in 1..(i - 1) : line[j] # "#") - 1)
  ELSE line

Cleaned(line) ==
  LET Rule(text) ==
        IF text # <<>> /\ text[1] = "!" THEN <<"!">> \o Strip(Tail(text)) ELSE text
  IN  Rule(Strip(BeforeHash(Strip(line))))

\* blank lines, comment lines, lines empty before their inline comment and a
\* bare `!` contribute no rule
Survives(line) == Cleaned(line) \notin {<<>>, <<"!">>}

RECURSIVE SurvivingLines(_)
SurvivingLines(lines) ==
  IF lines = <<>> THEN <<>>
  ELSE (IF Survives(lines[1]) THEN << Cleaned(lines[1]) >> ELSE <<>>)
       \o SurvivingLines(Tail(lines))

Loaded == last.op = "load_ignore_patterns"

C19_WitnessFailure ==
  /\ Loaded
  /\ Raises(llmignore)
  /\ llmignore.lines = << STAR_LOG >>
  /\ last.spec = None

\* the names of the output files the runs exclude from their own walk
OutputNames == {FLAT_TXT, TREE_TXT}

\* C20: no run of generate_and_output_tree or flatten_code_logic, with or
\* without an output file inside the root, changes CORE_SYSTEM_EXCLUSIONS,
\* the built-in fallback exclusion sets, DEFAULT_INCLUDE_PATTERNS or a list of
\* the caller; every run receives the lists the caller holds, and these
\* never hold the name of an output file added for self-exclusion.
C20_NoStateLeaks ==
  [][ /\ objects' = objects
      /\ objects'.CORE_SYSTEM_EXCLUSIONS = CORE_SYSTEM_EXCLUSIONS
      /\ objects'.DEFAULT_EXCLUDED_ITEMS_TOOL_SPECIFIC = DEFAULT_EXCLUDED_ITEMS_TOOL_SPECIFIC
      /\ objects'.DEFAULT_EXCLUDED_ITEMS_GENERAL_FOR_WALK_FALLBACK
           = DEFAULT_EXCLUDED_ITEMS_GENERAL_FOR_WALK_FALLBACK
      /\ objects'.DEFAULT_INCLUDE_PATTERNS = DEFAULT_INCLUDE_PATTERNS
      /\ last'.op = "flatten"
           => last'.cli = objects'.exclude_patterns /\ last'.include = objects'.include_patterns
      /\ last'.op = "tree" => last'.cli = objects'.ignore_list
      /\ \A k \in 1..Len(last'.cli) : last'.cli[k] \notin OutputNames ]_vars

\* a flatten run that added the name of its output file to its own ignore
\* list, after a tree run that had done the same, with the caller's list as
\* it was
C20_Witness ==
  /\ Flattened
  /\ last.output = RootDir \o <<FLAT_TXT>>
  /\ last.cli = << SRC >>
  /\ RunCliIgnores = << SRC, FLAT_TXT >>
  /\ objects.exclude_patterns = << SRC >>
  /\ objects.ignore_list = << SRC >>
  /\ IsFile(last.walked, RootDir \o <<TREE_TXT>>)

(***************************************************************************)
(* Directories under last-match-wins (SpecResolver)                        *)
(***************************************************************************)

\* the rules that match a directory in its trailing-slash form or in its
\* bare-name form, by position
DirMatchingRules(spec, rel) ==
  MatchingRules(spec, AsPosix(rel) \o <<"/">>) \cup MatchingRules(spec, AsPosix(rel))

\* the last of them decides
LastDirRuleIgnores(spec, rel) ==
  LET m == DirMatchingRules(spec, rel)
  IN  /\ m # {}
      /\ ~IsNegation(spec[CHOOSE i \in m : \A j \in m : j <= i])

NOT_BUILD_DIR == <<"!">> \o BUILD \o <<"/">>

\* C21 (as stated): for a directory under the root with no core-excluded
\* segment and no CLI patterns, is_path_ignored is true iff the last rule in
\* file order that matches the directory, in its trailing-slash form or in its
\* bare-name form, is not a negation; under [build, !build/] the directory
\* build is visible.
C21_Original ==
  (/\ Asked
   /\ last.spec # None
   /\ IsDir(fs, last.path)
   /\ IsRelativeTo(last.path, RootDir)
   /\ ~HasGitSegment(last.path)
   /\ last.cli = <<>>)
  => /\ last.answer <=> LastDirRuleIgnores(last.spec, AskedRel)
     /\ (AskedRel = <<BUILD>> /\ last.spec = <<BUILD, NOT_BUILD_DIR>>) => ~last.answer

(***************************************************************************)
(* Directory patterns of the CLI (SpecResolver)                            *)
(***************************************************************************)

\* C22 (as stated): with no ignore spec and the one CLI pattern `build/`,
\* is_path_ignored is false for every regular file, a file named `build`
\* included, and true only for directories whose relative path plus `/`, or
\* whose name plus `/`, is the pattern (paths with a core-excluded segment
\* left aside).
C22_Original ==
  (/\ Asked
   /\ last.spec = None
   /\ last.cli = << BUILD_DIR >>
   /\ ~HasGitSegment(last.path))
  => /\ IsFile(fs, last.path) => ~last.answer
     /\ last.answer =>
          /\ IsDir(fs, last.path)
          /\ \/ /\ IsRelativeTo(last.path, RootDir)
                /\ AsPosix(AskedRel) \o <<"/">> = BUILD_DIR
             \/ Name(last.path) \o <<"/">> = BUILD_DIR

(***************************************************************************)
(* The include criteria: one call of _file_matches_include_criteria on a   *)
(* file name and the patterns of --include (none: the default patterns)    *)
(***************************************************************************)

\* the file names the criteria are asked about
IncludeNames ==
  { <<"m", "a", "i", "n", ".", "p", "y">>,
    <<"M", "A", "I", "N", ".", "P", "Y">>,
    <<"a", "r", "c", "h", "i", "v", "e", ".", "t", "a", "r", ".", "g", "z">>,
    <<"x", ".", "g", "z">>,
    <<".", "g", "i", "t", "a", "t", "t", "r", "i", "b", "u", "t", "e", "s">>,
    <<".", "e", "n", "v", ".", "e", "x", "a", "m", "p", "l", "e">>,
    <<".", "e", "d", "i", "t", "o", "r", "c", "o", "n", "f", "i", "g">>,
    <<".", "p", "y">>,
    <<"R", "E", "A", "D", "M", "E">>,
    <<"n", "o", "t", "e", "s", ".", "T", "X", "T">>,
    <<"a", "p", "p", ".", "l", "o", "g">>,
    <<"s", "e", "t", "u", "p", ".", "p", "y", "x">> }

\* the patterns of --include
IncludePatterns ==
  { <<".", "p", "y">>,
    <<".", "P", "Y">>,
    <<".", "g", "z">>,
    <<".", "t", "a", "r", ".", "g", "z">>,
    <<".", "g", "i", "t", "a", "t", "t", "r", "i", "b", "u", "t", "e", "s">>,
    <<".", "e", "n", "v", ".", "e", "x", "a", "m", "p", "l", "e">>,
    <<".", "e", "d", "i", "t", "o", "r", "c", "o", "n", "f", "i", "g">>,
    <<"*", ".", "p", "y">>,
    <<"*", ".", "t", "a", "r", ".", "g", "z">>,
    <<"*", ".", "t", "x", "t">>,
    <<"R", "E", "A", "D", "M", "E">> }

IncludeLists == {<<>>} \cup {<< p >> : p \in IncludePatterns}

InitInclude ==
  /\ fs = FsFlat
  /\ llmignore = NoIgnoreFile
  /\ denied = {}
  /\ listing = "ascending"
  /\ pyproject = [exists |-> FALSE]
  /\ content = <<>>
  /\ objects = <<>>
  /\ last = NoCall

\* _file_matches_include_criteria(file_path, cli_include_patterns)
FileMatchesIncludeCriteria(file_name, cli_include_patterns) ==
  /\ last.op = "none"
  /\ last' = [NoCall EXCEPT
                !.op = "_file_matches_include_criteria",
                !.path = RootDir \o <<file_name>>, !.include = cli_include_patterns,
                !.answer = _file_matches_include_criteria(RootDir \o <<file_name>>,
                                                          cli_include_patterns)]
  /\ UNCHANGED <<fs, denied, llmignore, pyproject, content, objects, listing>>

NextInclude ==
  \E file_name \in IncludeNames, patterns \in IncludeLists :
     FileMatchesIncludeCriteria(file_name, patterns)

SpecInclude == InitInclude /\ [][NextInclude]_vars

AskedInclude == last.op = "_file_matches_include_criteria"

GITATTRIBUTES == <<".", "g", "i", "t", "a", "t", "t", "r", "i", "b", "u", "t", "e", "s">>
ENV_EXAMPLE   == <<".", "e", "n", "v", ".", "e", "x", "a", "m", "p", "l", "e">>
EDITORCONFIG  == <<".", "e", "d", "i", "t", "o", "r", "c", "o", "n", "f", "i", "g">>
TAR_GZ        == <<".", "t", "a", "r", ".", "g", "z">>
ARCHIVE_TAR_GZ == <<"a", "r", "c", "h", "i", "v", "e", ".", "t", "a", "r", ".", "g", "z">>

\* C23 (as stated): a pattern starting with `.` matches iff the lower-cased
\* file name ends with the lower-cased pattern, a pattern starting with `*.`
\* iff it ends with the lower-cased part after the star; so the default
\* patterns `.env.example`, `.gitattributes` and `.editorconfig` match the
\* files of those names and `.tar.gz` matches archive.tar.gz.
C23_Original ==
  AskedInclude =>
    /\ (Len(last.include) = 1 /\ StartsWith(last.include[1], <<".">>))
          => (last.answer <=> EndsWith(LowerStr(Name(last.path)), LowerStr(last.include[1])))
    /\ (Len(last.include) = 1 /\ StartsWith(last.include[1], <<"*", ".">>))
          => (last.answer <=> EndsWith(LowerStr(Name(last.path)),
                                       LowerStr(Tail(last.include[1]))))
    /\ (last.include = <<>> /\ Name(last.path) \in {ENV_EXAMPLE, GITATTRIBUTES, EDITORCONFIG})
          => last.answer
    /\ (last.include = << TAR_GZ >> /\ Name(last.path) = ARCHIVE_TAR_GZ) => last.answer

(***************************************************************************)
(* The byte-order mark (SpecLoader)                                        *)
(***************************************************************************)

\* the lines of the file without the mark that starts the first one
WithoutBOM(lines) ==
  IF lines # <<>> /\ lines[1] # <<>> /\ lines[1][1] = BOM
  THEN << Tail(lines[1]) >> \o Tail(lines)
  ELSE lines

\* C24 (as stated): when the ignore file starts with a byte-order mark, the
\* rules loaded are those of the same file without the mark; the mark is
\* never part of a pattern, and a first line that is a comment once the mark
\* is removed yields no rule.
C24_Original ==
  (Loaded /\ llmignore.exists /\ ~Raises(llmignore))
  => /\ last.spec = SurvivingLines(WithoutBOM(llmignore.lines))
     /\ \A k \in 1..Len(last.spec) : ~Contains(last.spec[k], BOM)

(***************************************************************************)
(* The order of the listing: tree runs on a case-sensitive file system     *)
(* holding entries whose names differ in letter case only, between which   *)
(* the order in which directories list their entries may change            *)
(***************************************************************************)

MAIN_PY_UPPER == <<"M", "A", "I", "N", ".", "P", "Y">>
SRC_UPPER     == <<"S", "r", "c">>

FsCase ==
  MkFs({ <<MAIN_PY>>, <<MAIN_PY_UPPER>>, <<IMPORTANT_LOG>>,
         <<SRC, KEEP_TXT>>, <<SRC_UPPER, KEEP_TXT>> })

OrderIgnoreFiles ==
  { NoIgnoreFile,
    [exists |-> TRUE, lines |-> << STAR_LOG >>],
    [exists |-> TRUE, lines |-> << SRC \o <<"/">> >>] }

InitOrder ==
  /\ \E i \in OrderIgnoreFiles :
        /\ fs = WithIgnoreFile(FsCase, i)
        /\ llmignore = i
  /\ denied = {}
  /\ listing \in ListingOrders
  /\ pyproject = [exists |-> FALSE]
  /\ content = <<>>
  /\ objects = <<>>
  /\ last = NoCall

\* the same entries come to be listed in the other order (the directory is
\* re-created, or re-indexed by the file system)
Relist ==
  /\ listing' \in ListingOrders \ {listing}
  /\ UNCHANGED <<fs, denied, llmignore, pyproject, content, objects, last>>

NextOrder ==
  \/ \E output_file_path \in OutputPaths, ignore_list \in CliLists :
        GenerateAndOutputTree(output_file_path, ignore_list)
  \/ \E ignore_list \in CliLists : PrintTree(ignore_list)
  \/ Relist

SpecOrder == InitOrder /\ [][NextOrder]_vars

\* two runs in a row on the same directory contents with the same inputs
SameRunAgain ==
  /\ last.op = "tree" /\ last'.op = "tree"
  /\ last.exit_code = 0 /\ last'.exit_code = 0
  /\ last'.walked = last.walked
  /\ last'.spec = last.spec
  /\ last'.cli = last.cli
  /\ last'.output = last.output

\* C25 (as stated): for fixed directory contents and fixed ignore inputs the
\* rendered tree (the lines written, the Rich tree printed) is the same
\* whatever the order in which the file system lists a directory, entries
\* whose names differ in letter case only included.
C25_Original ==
  [][SameRunAgain => (last'.lines = last.lines /\ last'.rich = last.rich)]_vars

(***************************************************************************)
(* Exclude patterns of the flatten runs (SpecRuns)                         *)
(***************************************************************************)

\* the exclude list without its k-th pattern
WithoutPattern(exclude_patterns, k) ==
  SubSeq(exclude_patterns, 1, k - 1) \o SubSeq(exclude_patterns, k + 1, Len(exclude_patterns))

\* the files with an entry in the output of the same run under another
\* exclude list
EmittedWith(exclude_patterns) ==
  LET PathsOf(parts) == {parts[i].path : i \in 1..Len(parts)}
  IN  PathsOf(flatten_walk(last.walked, last.den, last.cont, last.root,
                           IgnoreFileOf(last.root), last.output, last.include,
                           exclude_patterns).flat.parts)

\* C26 (as stated): a file emitted under the exclude list of the run is also
\* emitted under the list without any one of its patterns, whatever the
\* ignore file and the include list, with no ignore file and a pattern naming
\* a directory of the fallback set (`build/`) included.
C26_Original ==
  Flattened =>
    \A k \in 1..Len(last.cli) : Emitted \subseteq EmittedWith(WithoutPattern(last.cli, k))

(***************************************************************************)
(* The recursion of the tree walk, one call and one child at a time, on    *)
(* directories that hold a symbolic link to the root.  A frame is a call   *)
(* of _generate_tree_lines_recursive: its current_dir, as the names below  *)
(* the root it was reached by, and the children its first loop has yet to  *)
(* look at.                                                                *)
(***************************************************************************)

\* the number of symbolic links the platform follows in one path before
\* stat fails with ELOOP, and the depth of calls at which the interpreter
\* raises RecursionError
MaxSymlinks    == 3
RecursionLimit == 9

UP  == <<"u", "p">>
SUB == <<"s", "u", "b">>

\* a link <name> -> the root inside the directory dir of the project
WithLinkToRoot(f, dir) ==
  [p \in DOMAIN f \cup {RootDir \o dir \o <<UP>>} |->
     IF p = RootDir \o dir \o <<UP>> THEN "link" ELSE f[p]]

FsPlain == MkFs({ <<MAIN_PY>>, <<SRC, KEEP_TXT>>, <<SRC, PKG, SUB, INDEX_JS>> })

WalkFileSystems ==
  { FsPlain, FsProject,
    WithLinkToRoot(FsPlain, <<SRC>>),
    WithLinkToRoot(FsPlain, <<SRC, PKG>>),
    WithLinkToRoot(FsPlain, <<SRC, PKG, SUB>>),
    WithLinkToRoot(FsProject, <<SRC>>) }

\* the directory entry a path names once the links on it are followed
RECURSIVE ResolveFrom(_, _, _)
ResolveFrom(f, at, names) ==
  IF names = <<>> THEN at
  ELSE LET Go(next) == ResolveFrom(f, IF next \in DOMAIN f /\ f[next] = "link"
                                      THEN RootDir ELSE next, Tail(names))
       IN  Go(at \o <<names[1]>>)

\* the links on a path
RECURSIVE LinksFrom(_, _, _)
LinksFrom(f, at, names) ==
  IF names = <<>> THEN 0
  ELSE LET Go(next) == IF next \in DOMAIN f /\ f[next] = "link"
                       THEN 1 + LinksFrom(f, RootDir, Tail(names))
                       ELSE LinksFrom(f, next, Tail(names))
       IN  Go(at \o <<names[1]>>)

\* child_path.is_dir(): stat follows the links, and is_dir answers False
\* when stat fails with ELOOP
FollowedIsDir(f, names) ==
  /\ LinksFrom(f, RootDir, names) <= MaxSymlinks
  /\ IsDir(f, ResolveFrom(f, RootDir, names))

\* sorted(current_dir.iterdir(), key=...), as names: the entry at position i
\* is the one with i - 1 entries before it, by the key and, for equal keys,
\* by the order of the listing
SortedChildren(f, names) ==
  LET InOrder(S) ==
        [i \in 1..Cardinality(S) |->
           Name(CHOOSE x \in S :
                  Cardinality({y \in S \ {x} :
                                 \/ KeyLess(f, y, x)
                                 \/ ~KeyLess(f, x, y) /\ ListedBefore(y, x)}) = i - 1)]
  IN  InOrder(IterDir(f, ResolveFrom(f, RootDir, names)))

Frame(f, names) == [dir |-> names, todo |-> SortedChildren(f, names)]

InitWalk ==
  /\ fs \in WalkFileSystems
  /\ llmignore = NoIgnoreFile
  /\ denied = {}
  /\ listing = "ascending"
  /\ pyproject = [exists |-> FALSE]
  /\ content = <<>>
  /\ objects = <<>>
  /\ last = NoCall

Walking == last.op = "walking"

Top == last.frames[Len(last.frames)]

NextChild == Top.dir \o << Top.todo[1] >>

WithoutTop == SubSeq(last.frames, 1, Len(last.frames) - 1)

\* the root call of _generate_tree_lines_recursive
StartWalk ==
  /\ last.op = "none"
  /\ last' = [NoCall EXCEPT !.op = "walking", !.root = RootDir,
                !.frames = << Frame(fs, <<>>) >>]
  /\ UNCHANGED <<fs, denied, llmignore, pyproject, content, objects, listing>>

\* the first loop takes a child that is not a directory: no call
VisitFile ==
  /\ Walking /\ Top.todo # <<>>
  /\ ~FollowedIsDir(fs, NextChild)
  /\ last' = [last EXCEPT !.frames = Append(WithoutTop, [Top EXCEPT !.todo = Tail(@)])]
  /\ UNCHANGED <<fs, denied, llmignore, pyproject, content, objects, listing>>

\* the first loop takes a child for which is_dir() holds: the recursive call
EnterDirectory ==
  /\ Walking /\ Top.todo # <<>>
  /\ FollowedIsDir(fs, NextChild)
  /\ Len(last.frames) < RecursionLimit
  /\ last' = [last EXCEPT !.frames = Append(WithoutTop, [Top EXCEPT !.todo = Tail(@)])
                                       \o << Frame(fs, NextChild) >>]
  /\ UNCHANGED <<fs, denied, llmignore, pyproject, content, objects, listing>>

\* the recursive call goes beyond the depth the interpreter allows
RaiseRecursionError ==
  /\ Walking /\ Top.todo # <<>>
  /\ FollowedIsDir(fs, NextChild)
  /\ Len(last.frames) >= RecursionLimit
  /\ last' = [last EXCEPT !.op = "RecursionError", !.exit_code = 1]
  /\ UNCHANGED <<fs, denied, llmignore, pyproject, content, objects, listing>>

\* a call below the root call returns its lines
ReturnToParent ==
  /\ Walking /\ Top.todo = <<>> /\ Len(last.frames) > 1
  /\ last' = [last EXCEPT !.frames = WithoutTop]
  /\ UNCHANGED <<fs, denied, llmignore, pyproject, content, objects, listing>>

\* the root call returns the rendering
ReturnRendering ==
  /\ Walking /\ Top.todo = <<>> /\ Len(last.frames) = 1
  /\ last' = [last EXCEPT !.op = "tree", !.frames = <<>>]
  /\ UNCHANGED <<fs, denied, llmignore, pyproject, content, objects, listing>>

NextWalk ==
  \/ StartWalk
  \/ VisitFile
  \/ EnterDirectory
  \/ RaiseRecursionError
  \/ ReturnToParent
  \/ ReturnRendering

SpecWalk == InitWalk /\ [][NextWalk]_vars

\* the interpreter runs the call to its end: a step that can be taken is taken
SpecWalkFair == SpecWalk /\ WF_vars(NextWalk)

\* C27 (as stated): on every directory structure, one holding a symbolic link
\* to an ancestor included, the walk eventually returns a rendering.
C27_Original == <>(last.op = "tree")

(***************************************************************************)
(* The two renderers side by side (Spec)                                   *)
(***************************************************************************)

\* the entries of the written lines from top to bottom: the path of each and
\* whether it is drawn as a directory
EntriesOfLines(lines) ==
  LET shown == SelectSeq([k \in 1..Len(lines) |-> k],
                         LAMBDA k : k >= 2 /\ ~IsAnnotation(lines[k]))
  IN  [n \in 1..Len(shown) |->
         [path |-> EntryPath(lines, shown[n]),
          dir  |-> lines[shown[n]][Len(lines[shown[n]])] = "/"]]

\* the entries of a Rich tree, each node before its children
RECURSIVE EntriesOfRich(_, _)
EntriesOfRich(nodes, at) ==
  IF nodes = <<>> THEN <<>>
  ELSE (IF nodes[1].label = <<DENIED_RICH>> THEN <<>>
        ELSE LET Node(path) ==
                   << [path |-> path, dir |-> nodes[1].label[2] = FOLDER] >>
                   \o EntriesOfRich(nodes[1].children, path)
             IN  Node(at \o << SubSeq(nodes[1].label, 3, Len(nodes[1].label)) >>))
       \o EntriesOfRich(Tail(nodes), at)

\* what each renderer produces on the inputs of the last run
PlainOfRun ==
  _generate_tree_lines_recursive(last.walked, last.den, RootDir, RootDir, last.spec,
                                 RunCli, DEFAULT_EXCLUDED_ITEMS_TOOL_SPECIFIC, <<>>, TRUE)

RichOfRun ==
  _add_nodes_to_rich_tree_recursive(last.walked, last.den, RootDir, RootDir, last.spec,
                                    RunCli, DEFAULT_EXCLUDED_ITEMS_TOOL_SPECIFIC)

FsSelf ==
  MkFs({ <<MAIN_PY>>, <<IMPORTANT_LOG>>, <<SRC, MAIN_PY>>, <<SRC, FLAT_TXT>>,
         <<BUILD, KEEP_TXT>> })

SelfIgnoreFiles ==
  { NoIgnoreFile,
    [exists |-> TRUE, lines |-> << STAR_LOG >>],
    [exists |-> TRUE, lines |-> << DirRule(<<BUILD>>), KeepRule(<<BUILD>>) >>] }

InitSelf ==
  /\ \E i \in SelfIgnoreFiles, lists \in CallerLists :
        /\ fs = WithIgnoreFile(FsSelf, i)
        /\ llmignore = i
        /\ objects = Objects(lists)
  /\ denied = {}
  /\ listing = "ascending"
  /\ content = <<>>
  /\ pyproject = NoPyProject
  /\ last = NoCall

NextSelf == \E output_file_path \in FlattenOutputs : CallerFlattens(RootDir, output_file_path)

SpecSelf == InitSelf /\ [][NextSelf]_vars

\* the parts of the same run with the output file written outside the root
PartsWithOutputOutside ==
  flatten_walk(last.walked, last.den, last.cont, last.root, IgnoreFileOf(last.root),
               OutsideDir \o <<FLAT_TXT>>, last.include, last.cli).flat.parts

\* C29 (as stated): when the output file lies inside the root, it is not
\* emitted itself, and every other file under the root, a file of the same
\* name in another directory included, is emitted exactly as in the run
\* with the output written outside the root.
C29_Original ==
  (Flattened /\ last.output # <<>> /\ IsRelativeTo(last.output, last.root))
  => /\ RelativeTo(last.output, last.root) \notin Emitted
     /\ last.flat.parts =
          SelectSeq(PartsWithOutputOutside,
                    LAMBDA part : part.path # RelativeTo(last.output, last.root))

(***************************************************************************)
(* The counters of the flatten runs, file by file (SpecRuns)               *)
(***************************************************************************)

\* the counters agree with the parts appended so far
CountersMatch(st) ==
  LET Of(kind) == {i \in 1..Len(st.parts) : st.parts[i].kind = kind}
  IN  /\ st.files_processed_count = Cardinality(Of("file"))
      /\ st.files_skipped_binary_count = Cardinality(Of("skipped"))
      /\ \A i \in Of("file") :
            /\ i + 1 \in Of("content")
            /\ st.parts[i + 1].path = st.parts[i].path
      /\ \A i \in Of("content") : i - 1 \in Of("file")

\* what the loop body did for one file, from the state before to the state after
StepMatches(st, after, file_path) ==
  /\ CountersMatch(after)
  /\ (file_path \in SelectedFiles /\ ~ContentOf(last.cont, file_path).readable)
       => after = [st EXCEPT !.parts = Append(@, [kind |-> "error",
                                                  path |-> RelativeTo(file_path, last.root)])]
  /\ file_path \notin SelectedFiles => after = st

\* every step of the loop over the files the walk reached, and its last state
RECURSIVE StepsMatch(_, _)
StepsMatch(st, files) ==
  IF files = <<>> THEN st = last.flat
  ELSE LET Then(after) == StepMatches(st, after, files[1]) /\ StepsMatch(after, Tail(files))
       IN  Then(ProcessFile(last.walked, last.cont, st, files[1], last.root, last.spec,
                            RunCliIgnores, last.include))

\* C30: after every file of the walk, files_processed_count is the number of
\* file markers appended so far, each file marker is followed at once by its
\* one content part, files_skipped_binary_count is the number of skip
\* markers, and a file whose read fails adds one error marker and changes
\* neither counter.
C30_CountersMatchParts ==
  Flattened => (CountersMatch(NoParts) /\ StepsMatch(NoParts, last.reached))

\* a run in which src/main.py cannot be read and other files are emitted
C30_Witness ==
  /\ Flattened
  /\ ~ContentOf(last.cont, RootDir \o <<SRC, MAIN_PY>>).readable
  /\ Cardinality(PartsOf("error", RootDir \o <<SRC, MAIN_PY>>)) = 1
  /\ last.flat.files_processed_count >= 1
  /\ last.flat.files_skipped_binary_count = 0

====
